---------------------------- MODULE Spec2Model ----------------------------
(***************************************************************************)
(* tibeb: the schema code generator (internal/generator) and its run       *)
(* against a file system.                                                  *)
(*                                                                         *)
(* Go strings are sequences of one-character strings, so that ToLower,     *)
(* HasSuffix, Split and TrimSpace are computed character by character.     *)
(* go/ast nodes are records tagged by "kind" with the field names of the   *)
(* go/ast struct they stand for.                                           *)
(***************************************************************************)
EXTENDS Integers, Sequences, FiniteSets, TLC

-----------------------------------------------------------------------------
(* Bounds of the model.                                                    *)

\* Longest chain of calls after the root builder call of one declaration.
MaxFields == 3
\* Longest chain of validator methods after the type constructor.
MaxValidators == 2
\* Most declarations in one input file.
MaxDecls == 2

-----------------------------------------------------------------------------
(* Strings.                                                                *)

UpperChars == << "A","B","C","D","E","F","G","H","I","J","K","L","M",
                 "N","O","P","Q","R","S","T","U","V","W","X","Y","Z" >>
LowerChars == << "a","b","c","d","e","f","g","h","i","j","k","l","m",
                 "n","o","p","q","r","s","t","u","v","w","x","y","z" >>

s_validate == << "v","a","l","i","d","a","t","e" >>
s_Struct == << "S","t","r","u","c","t" >>
s_Field == << "F","i","e","l","d" >>
s_String == << "S","t","r","i","n","g" >>
s_Int == << "I","n","t" >>
s_Schema == << "S","c","h","e","m","a" >>
s_interface == << "i","n","t","e","r","f","a","c","e","{","}" >>
s_validationSchemaFor == << "v","a","l","i","d","a","t","i","o","n"," ",
                            "s","c","h","e","m","a"," ","f","o","r" >>
s_validatorGo == << "_","v","a","l","i","d","a","t","o","r",".","g","o" >>

\* strings.ToLower, on the ASCII letters
ToLowerChar(c) ==
    IF \E i \in 1..Len(UpperChars) : UpperChars[i] = c
    THEN LowerChars[CHOOSE i \in 1..Len(UpperChars) : UpperChars[i] = c]
    ELSE c

ToLower(s) == [i \in 1..Len(s) |-> ToLowerChar(s[i])]

\* strings.ToUpper, on the ASCII letters
ToUpperChar(c) ==
    IF \E i \in 1..Len(LowerChars) : LowerChars[i] = c
    THEN UpperChars[CHOOSE i \in 1..Len(LowerChars) : LowerChars[i] = c]
    ELSE c

ToUpper(s) == [i \in 1..Len(s) |-> ToUpperChar(s[i])]

\* the template function capitalizeFirst
capitalizeFirst(s) ==
    IF Len(s) = 0 THEN s ELSE ToUpper(SubSeq(s, 1, 1)) \o SubSeq(s, 2, Len(s))

\* whether sub occurs in s at offset i (1-based)
OccursAt(s, sub, i) ==
    /\ i + Len(sub) - 1 <= Len(s)
    /\ \A j \in 1..Len(sub) : s[i + j - 1] = sub[j]

\* strings.Index, 1-based, 0 when sub does not occur
Index(s, sub) ==
    IF \E i \in 1..Len(s) : OccursAt(s, sub, i)
    THEN CHOOSE i \in 1..Len(s) :
            /\ OccursAt(s, sub, i)
            /\ \A j \in 1..(i - 1) : ~OccursAt(s, sub, j)
    ELSE 0

\* strings.Contains, for a non-empty sub
Contains(s, sub) == Index(s, sub) # 0

\* strings.Split, for a non-empty sep
RECURSIVE Split(_, _)
Split(s, sep) ==
    LET i == Index(s, sep) IN
    IF i = 0 THEN << s >>
    ELSE << SubSeq(s, 1, i - 1) >> \o Split(SubSeq(s, i + Len(sep), Len(s)), sep)

\* strings.TrimSpace, on blanks
RECURSIVE TrimSpace(_)
TrimSpace(s) ==
    IF Len(s) = 0 THEN s
    ELSE IF s[1] = " " THEN TrimSpace(Tail(s))
    ELSE IF s[Len(s)] = " " THEN TrimSpace(SubSeq(s, 1, Len(s) - 1))
    ELSE s

\* strings.HasSuffix
HasSuffix(s, suffix) ==
    /\ Len(suffix) <= Len(s)
    /\ SubSeq(s, Len(s) - Len(suffix) + 1, Len(s)) = suffix

\* strings.TrimSuffix
TrimSuffix(s, suffix) ==
    IF HasSuffix(s, suffix) THEN SubSeq(s, 1, Len(s) - Len(suffix)) ELSE s

\* filepath.Join of a clean, non-empty directory and a file name
Join(dir, name) == IF dir = << "." >> THEN name ELSE dir \o << "/" >> \o name

-----------------------------------------------------------------------------
(* go/ast nodes.                                                           *)

Ident(name) == [kind |-> "Ident", Name |-> name]
BasicLit(value) == [kind |-> "BasicLit", Value |-> value]
SelectorExpr(x, sel) == [kind |-> "SelectorExpr", X |-> x, Sel |-> Ident(sel)]
IndexExpr(x, index) == [kind |-> "IndexExpr", X |-> x, Index |-> index]
CallExpr(fun, args) == [kind |-> "CallExpr", Fun |-> fun, Args |-> args]
UnaryExpr(op, x) == [kind |-> "UnaryExpr", Op |-> op, X |-> x]
ReturnStmt(results) == [kind |-> "ReturnStmt", Results |-> results]
\* func(<param> <ptype>) <results...> { <body...> }: Results holds the result
\* types (Type.Results.List[i].Type), Body the statements (Body.List)
FuncLit(param, ptype, results, body) ==
    [kind |-> "FuncLit", Param |-> param, ParamType |-> ptype,
     Results |-> results, Body |-> body]
GenDecl(tok, doc, specs) == [kind |-> "GenDecl", Tok |-> tok, Doc |-> doc, Specs |-> specs]
ValueSpec(names, values) == [kind |-> "ValueSpec", Names |-> names, Values |-> values]
DeclStmt(decl) == [kind |-> "DeclStmt", Decl |-> decl]
AssignStmt(lhs, rhs) == [kind |-> "AssignStmt", Lhs |-> lhs, Tok |-> ":=", Rhs |-> rhs]
FuncDecl(body) == [kind |-> "FuncDecl", Body |-> body]
CompositeLit(type) == [kind |-> "CompositeLit", Type |-> type, Elts |-> << >>]
File(decls) == [kind |-> "File", Decls |-> decls]

Nil == [kind |-> "nil"]

-----------------------------------------------------------------------------
(* parser.ParseFile, on the text of the file read left to right.           *)
(*                                                                         *)
(* The text of a declaration is kept as what is written, in source order:  *)
(*   value:  <head>.<call 1>.<call 2>...                                   *)
(*   head:   pkg.fn[targ](<args>)  |  pkg.fn()  |  name                    *)
(*         | pkg.fn[tpkg.targ]()  |  pkg.fn[targ]  (not called)            *)
(*   call:   Sel(func(p T) R { <body> },                                   *)
(*               validate.ctor(<cargs>).<steps>[, e])                      *)
(*           (c = "field", nargs the number of arguments written; body     *)
(*            names what stands for the selector: "return" for             *)
(*            { return x.F }, the other forms are listed at ParseBody)     *)
(*         | Sel(<argument tokens>)            (c = "plain")               *)
(*   step:   Sel(<argument tokens>)                                        *)
(* The parser nests a chain left-associatively: the last call written is   *)
(* the outermost node.                                                     *)

Digits == { "0","1","2","3","4","5","6","7","8","9" }

\* one argument token: a literal, a negated literal, a qualified name, or a
\* name
ParseToken(tok) ==
    IF tok[1] \in Digits \/ tok[1] = "\"" THEN BasicLit(tok)
    ELSE IF tok[1] = "-" THEN UnaryExpr("-", BasicLit(Tail(tok)))
    ELSE IF Contains(tok, << "." >>)
         THEN SelectorExpr(Ident(SubSeq(tok, 1, Index(tok, << "." >>) - 1)),
                           SubSeq(tok, Index(tok, << "." >>) + 1, Len(tok)))
    ELSE Ident(tok)

ParseTokens(toks) == [i \in 1..Len(toks) |-> ParseToken(toks[i])]

\* a result type: the empty interface, a qualified type (pkg.Name), or a
\* named type
ParseType(text) ==
    IF text = s_interface THEN [kind |-> "InterfaceType"]
    ELSE IF Contains(text, << "." >>)
         THEN SelectorExpr(Ident(SubSeq(text, 1, Index(text, << "." >>) - 1)),
                           SubSeq(text, Index(text, << "." >>) + 1, Len(text)))
    ELSE Ident(text)

RECURSIVE ParseChain(_, _)
ParseChain(head, calls) ==
    IF Len(calls) = 0 THEN head
    ELSE LET n == Len(calls) IN
         CallExpr(SelectorExpr(ParseChain(head, SubSeq(calls, 1, n - 1)), calls[n].Sel),
                  calls[n].Args)

ParseSteps(steps) ==
    [i \in 1..Len(steps) |-> [Sel |-> steps[i].Sel, Args |-> ParseTokens(steps[i].Args)]]

\* the statements of the selector's body:
\*   "return"          { return x.F }
\*   "returnThenMore"  { return x.F; n := x }
\*   "assignFirst"     { n := x.F; return n }
\*   "returnParam"     { return x }
\*   "returnNothing"   { return }
\*   "empty"           { }
ParseBody(c) ==
    LET n == Ident(<< "n" >>)
        projection == SelectorExpr(Ident(c.x), c.F)
    IN  IF c.body = "return" THEN << ReturnStmt(<< projection >>) >>
        ELSE IF c.body = "returnThenMore"
             THEN << ReturnStmt(<< projection >>), AssignStmt(<< n >>, << Ident(c.x) >>) >>
        ELSE IF c.body = "assignFirst"
             THEN << AssignStmt(<< n >>, << projection >>), ReturnStmt(<< n >>) >>
        ELSE IF c.body = "returnParam" THEN << ReturnStmt(<< Ident(c.x) >>) >>
        ELSE IF c.body = "returnNothing" THEN << ReturnStmt(<< >>) >>
        ELSE << >>

\* func(p T) R { <body> }, or a name where the function literal would stand
\* (body = "name")
ParseSelector(c) ==
    IF c.body = "name" THEN Ident(c.F)
    ELSE FuncLit(c.p, c.T, IF Len(c.R) = 0 THEN << >> ELSE << ParseType(c.R) >>,
                 ParseBody(c))

\* validate.ctor(<cargs>).<steps>. A constructor name that ends in "{}" is
\* read as a composite literal of the type before the braces: the call's
\* Fun is then that literal, not a selector
ParseValidator(c) ==
    IF HasSuffix(c.ctor, << "{", "}" >>)
    THEN ParseChain(
            CallExpr(CompositeLit(SelectorExpr(Ident(s_validate),
                                               TrimSuffix(c.ctor, << "{", "}" >>))),
                     ParseTokens(c.cargs)),
            ParseSteps(c.steps))
    ELSE ParseChain(Ident(s_validate),
                    << [Sel |-> c.ctor, Args |-> ParseTokens(c.cargs)] >>
                        \o ParseSteps(c.steps))

ParseCall(c) ==
    IF c.c = "field"
    THEN [Sel |-> c.Sel,
          Args |-> SubSeq(<< ParseSelector(c), ParseValidator(c), Ident(c.x) >>,
                          1, c.nargs)]
    ELSE [Sel |-> c.Sel, Args |-> ParseTokens(c.Args)]

ParseHead(h) ==
    IF h.h = "generic"
    THEN CallExpr(IndexExpr(SelectorExpr(Ident(h.pkg), h.fn), Ident(h.targ)),
                  ParseTokens(h.args))
    ELSE IF h.h = "qualified"
    THEN CallExpr(IndexExpr(SelectorExpr(Ident(h.pkg), h.fn),
                            SelectorExpr(Ident(h.tpkg), h.targ)), << >>)
    ELSE IF h.h = "index" THEN IndexExpr(SelectorExpr(Ident(h.pkg), h.fn), Ident(h.targ))
    ELSE IF h.h = "plain" THEN CallExpr(SelectorExpr(Ident(h.pkg), h.fn), << >>)
    ELSE Ident(h.name)

ParseValue(v) ==
    ParseChain(ParseHead(v.head), [i \in 1..Len(v.calls) |-> ParseCall(v.calls[i])])

\* one declaration: var/const at package level or in a function body, or a
\* short variable declaration (always in a function body)
ParseDecl(d) ==
    LET names == [i \in 1..Len(d.names) |-> Ident(d.names[i])]
        values == [i \in 1..Len(d.values) |-> ParseValue(d.values[i])]
        gen == GenDecl(d.form, d.doc, << ValueSpec(names, values) >>)
    IN  IF d.form = "define" THEN FuncDecl(<< AssignStmt(names, values) >>)
        ELSE IF d.place = "func" THEN FuncDecl(<< DeclStmt(gen) >>)
        ELSE gen

ParseFile(src) == File([i \in 1..Len(src.decls) |-> ParseDecl(src.decls[i])])

-----------------------------------------------------------------------------
(* The extractor.                                                          *)

\* ast.Inspect: the nodes of a file in depth-first order, down to the
\* statements of function bodies (expressions hold no declaration here)
InspectStmt(st) == IF st.kind = "DeclStmt" THEN << st, st.Decl >> ELSE << st >>

RECURSIVE InspectStmts(_)
InspectStmts(body) ==
    IF body = << >> THEN << >> ELSE InspectStmt(Head(body)) \o InspectStmts(Tail(body))

InspectDecl(d) == IF d.kind = "FuncDecl" THEN << d >> \o InspectStmts(d.Body) ELSE << d >>

RECURSIVE InspectDecls(_)
InspectDecls(decls) ==
    IF decls = << >> THEN << >> ELSE InspectDecl(Head(decls)) \o InspectDecls(Tail(decls))

Inspect(f) == << f >> \o InspectDecls(f.Decls)

\* findRootCall: unwrap "the call this call was invoked on" to the innermost
RECURSIVE findRootCall(_)
findRootCall(call) ==
    IF call.Fun.kind # "SelectorExpr" THEN call
    ELSE IF call.Fun.X.kind # "CallExpr" THEN call
    ELSE findRootCall(call.Fun.X)

\* inferFieldType
inferFieldType(results) ==
    IF Len(results) > 0 /\ results[1].kind = "Ident" THEN results[1].Name
    ELSE s_interface

\* a mistaken argument loop: a string literal is kept without its quotes
RECURSIVE extractArgsUnquoting(_)
extractArgsUnquoting(args) ==
    IF args = << >> THEN << >>
    ELSE LET arg == Head(args) IN
         (IF arg.kind = "BasicLit"
          THEN << IF arg.Value[1] = "\"" THEN SubSeq(arg.Value, 2, Len(arg.Value) - 1)
                  ELSE arg.Value >>
          ELSE IF arg.kind = "Ident" THEN << arg.Name >>
          ELSE << >>) \o extractArgsUnquoting(Tail(args))

\* a mistaken argument loop: it ends at the first argument that is neither a
\* literal nor an identifier
RECURSIVE extractArgsStopping(_)
extractArgsStopping(args) ==
    IF args = << >> THEN << >>
    ELSE LET arg == Head(args) IN
         IF arg.kind = "BasicLit" THEN << arg.Value >> \o extractArgsStopping(Tail(args))
         ELSE IF arg.kind = "Ident" THEN << arg.Name >> \o extractArgsStopping(Tail(args))
         ELSE << >>

\* the argument loop of extractValidators: literals by value, identifiers by
\* name, anything else left out
RECURSIVE extractArgs(_)
extractArgs(args) ==
    IF args = << >> THEN << >>
    ELSE LET arg == Head(args) IN
         (IF arg.kind = "BasicLit" THEN << arg.Value >>
          ELSE IF arg.kind = "Ident" THEN << arg.Name >>
          ELSE << >>) \o extractArgs(Tail(args))

\* whether a call is the constructor that extractValidators skips
IsSkippedConstructor(call) ==
    /\ call.Fun.Sel.Name \in {s_String, s_Int}
    /\ Len(call.Args) = 0
    /\ call.Fun.X.kind = "Ident"
    /\ call.Fun.X.Name = s_validate

\* a mistaken loop: each call is added behind the validators so far
RECURSIVE extractValidatorsBehind(_, _)
extractValidatorsBehind(current, validators) ==
    IF current.kind # "CallExpr" THEN validators
    ELSE IF current.Fun.kind # "SelectorExpr" THEN validators
    ELSE IF IsSkippedConstructor(current)
         THEN extractValidatorsBehind(current.Fun.X, validators)
    ELSE extractValidatorsBehind(
            current.Fun.X,
            validators \o
                << [Method |-> current.Fun.Sel.Name, Args |-> extractArgs(current.Args)] >>)

\* extractValidators: the loop, with `validators` the list built so far
RECURSIVE extractValidatorsFrom(_, _)
extractValidatorsFrom(current, validators) ==
    IF current.kind # "CallExpr" THEN validators
    ELSE IF current.Fun.kind # "SelectorExpr" THEN validators
    ELSE IF IsSkippedConstructor(current)
         THEN extractValidatorsFrom(current.Fun.X, validators)
    ELSE extractValidatorsFrom(
            current.Fun.X,
            << [Method |-> current.Fun.Sel.Name, Args |-> extractArgs(current.Args)] >>
                \o validators)

extractValidators(expr) == extractValidatorsFrom(expr, << >>)

\* a mistaken extractFieldValidation: arguments after the second are ignored
extractFieldValidationAnyArity(call) ==
    IF Len(call.Args) < 2 THEN Nil
    ELSE LET funcLit == call.Args[1] IN
         IF /\ funcLit.kind = "FuncLit"
            /\ Len(funcLit.Body) > 0
            /\ funcLit.Body[1].kind = "ReturnStmt"
            /\ Len(funcLit.Body[1].Results) > 0
            /\ funcLit.Body[1].Results[1].kind = "SelectorExpr"
         THEN [Name |-> funcLit.Body[1].Results[1].Sel.Name,
               Type |-> inferFieldType(funcLit.Results),
               Validators |-> extractValidators(call.Args[2])]
         ELSE Nil

\* extractFieldValidation: Nil when the call is not a field declaration
extractFieldValidation(call) ==
    IF Len(call.Args) # 2 THEN Nil
    ELSE LET funcLit == call.Args[1] IN
         IF /\ funcLit.kind = "FuncLit"
            /\ Len(funcLit.Body) > 0
            /\ funcLit.Body[1].kind = "ReturnStmt"
            /\ Len(funcLit.Body[1].Results) > 0
            /\ funcLit.Body[1].Results[1].kind = "SelectorExpr"
         THEN [Name |-> funcLit.Body[1].Results[1].Sel.Name,
               Type |-> inferFieldType(funcLit.Results),
               Validators |-> extractValidators(call.Args[2])]
         ELSE Nil

\* a mistaken step: the field is added behind the fields so far
PrependFieldBehind(current, fields) ==
    IF current.Fun.Sel.Name = s_Field
    THEN LET field == extractFieldValidation(current) IN
         IF field # Nil THEN fields \o << field >> ELSE fields
    ELSE fields

\* what one step of the collection loop adds in front of the fields so far
PrependField(current, fields) ==
    IF current.Fun.Sel.Name = s_Field
    THEN LET field == extractFieldValidation(current) IN
         IF field # Nil THEN << field >> \o fields ELSE fields
    ELSE fields

\* the collection loop of extractValidationSchema, from the outermost call
RECURSIVE collectFields(_, _)
collectFields(current, fields) ==
    IF current.Fun.kind # "SelectorExpr" THEN fields
    ELSE IF current.Fun.X.kind = "CallExpr"
         THEN collectFields(current.Fun.X, PrependField(current, fields))
    ELSE PrependField(current, fields)

\* the root test of extractValidationSchema: validate.Struct[T]
IsStructRoot(fun) ==
    /\ fun.kind = "IndexExpr"
    /\ fun.X.kind = "SelectorExpr"
    /\ fun.X.X.kind = "Ident"
    /\ fun.X.X.Name = s_validate
    /\ fun.X.Sel.Name = s_Struct
    /\ fun.Index.kind = "Ident"

\* an extractor that takes a root call without a type parameter for a schema
\* with an empty type name, to be named by findValidationSchemas
extractValidationSchemaUntyped(expr) ==
    IF expr.kind # "CallExpr" THEN Nil
    ELSE LET rootCall == findRootCall(expr) IN
         IF IsStructRoot(rootCall.Fun)
         THEN [TypeName |-> rootCall.Fun.Index.Name,
               Fields |-> collectFields(expr, << >>)]
         ELSE IF /\ rootCall.Fun.kind = "SelectorExpr"
                 /\ rootCall.Fun.X.kind = "Ident"
                 /\ rootCall.Fun.X.Name = s_validate
                 /\ rootCall.Fun.Sel.Name = s_Struct
         THEN [TypeName |-> << >>, Fields |-> collectFields(expr, << >>)]
         ELSE Nil

\* extractValidationSchema: Nil when the expression is not a schema
extractValidationSchema(expr) ==
    IF expr.kind # "CallExpr" THEN Nil
    ELSE LET rootCall == findRootCall(expr) IN
         IF ~IsStructRoot(rootCall.Fun) THEN Nil
         ELSE [TypeName |-> rootCall.Fun.Index.Name,
               Fields |-> collectFields(expr, << >>)]

\* the type name findValidationSchemas falls back to when the schema has none
FallbackTypeName(genDecl, varName) ==
    LET text == IF Len(genDecl.Doc) > 0 THEN genDecl.Doc[1] ELSE << >>
        parts == Split(text, s_validationSchemaFor)
        fromDoc == IF Len(genDecl.Doc) > 0 /\ Contains(text, s_validationSchemaFor)
                      /\ Len(parts) > 1
                   THEN TrimSpace(parts[2]) ELSE << >>
    IN  IF fromDoc # << >> THEN fromDoc
        ELSE IF HasSuffix(varName, s_Schema) THEN TrimSuffix(varName, s_Schema)
        ELSE varName

\* a mistaken test: the fallback is tried whatever the schema's type name is
NeedsFallbackAlways(schema, valueSpec, i) == i <= Len(valueSpec.Names)

\* the test that guards the fallback (line 83)
NeedsFallback(schema, valueSpec, i) ==
    schema.TypeName = << >> /\ i <= Len(valueSpec.Names)

\* the schemas of the values of one ValueSpec, value i being named Names[i]
RECURSIVE schemasOfValues(_, _, _)
schemasOfValues(genDecl, valueSpec, i) ==
    IF i > Len(valueSpec.Values) THEN << >>
    ELSE LET schema == extractValidationSchema(valueSpec.Values[i])
             named == IF NeedsFallback(schema, valueSpec, i)
                      THEN [schema EXCEPT !.TypeName =
                               FallbackTypeName(genDecl, valueSpec.Names[i].Name)]
                      ELSE schema
         IN  (IF schema # Nil THEN << named >> ELSE << >>)
                 \o schemasOfValues(genDecl, valueSpec, i + 1)

RECURSIVE schemasOfSpecs(_, _)
schemasOfSpecs(genDecl, i) ==
    IF i > Len(genDecl.Specs) THEN << >>
    ELSE (IF genDecl.Specs[i].kind = "ValueSpec"
          THEN schemasOfValues(genDecl, genDecl.Specs[i], 1) ELSE << >>)
             \o schemasOfSpecs(genDecl, i + 1)

RECURSIVE schemasOfNodes(_)
schemasOfNodes(nodes) ==
    IF nodes = << >> THEN << >>
    ELSE LET n == Head(nodes) IN
         (IF n.kind = "GenDecl" /\ n.Tok = "var" THEN schemasOfSpecs(n, 1) ELSE << >>)
             \o schemasOfNodes(Tail(nodes))

\* findValidationSchemas
findValidationSchemas(f) == schemasOfNodes(Inspect(f))

-----------------------------------------------------------------------------
(* The extractor of the generator that emits a Validate method (the second *)
(* generator of the source, lines 337-634). Its findRootCall, its          *)
(* extractFieldValidation and its inferFieldType are those above, line for *)
(* line; its validators are method names, the constructor included.        *)

\* extractValidators (lines 555-578): the loop, with `validators` the names
\* so far
RECURSIVE extractValidatorNamesFrom(_, _)
extractValidatorNamesFrom(current, validators) ==
    IF current.kind # "CallExpr" THEN validators
    ELSE IF current.Fun.kind # "SelectorExpr" THEN validators
    ELSE extractValidatorNamesFrom(current.Fun.X,
                                   << current.Fun.Sel.Name >> \o validators)

extractValidatorNames(expr) == extractValidatorNamesFrom(expr, << >>)

\* extractFieldValidation (lines 520-542)
extractFieldValidationOfNames(call) ==
    IF Len(call.Args) # 2 THEN Nil
    ELSE LET funcLit == call.Args[1] IN
         IF /\ funcLit.kind = "FuncLit"
            /\ Len(funcLit.Body) > 0
            /\ funcLit.Body[1].kind = "ReturnStmt"
            /\ Len(funcLit.Body[1].Results) > 0
            /\ funcLit.Body[1].Results[1].kind = "SelectorExpr"
         THEN [Name |-> funcLit.Body[1].Results[1].Sel.Name,
               Type |-> inferFieldType(funcLit.Results),
               Validators |-> extractValidatorNames(call.Args[2])]
         ELSE Nil

\* the collection loop (lines 476-494), from the outermost call
RECURSIVE collectFieldsOfNames(_, _)
collectFieldsOfNames(current, fields) ==
    IF current.Fun.kind # "SelectorExpr" THEN fields
    ELSE LET field == IF current.Fun.Sel.Name = s_Field
                      THEN extractFieldValidationOfNames(current) ELSE Nil
             found == IF field # Nil THEN << field >> \o fields ELSE fields
         IN  IF current.Fun.X.kind = "CallExpr"
             THEN collectFieldsOfNames(current.Fun.X, found)
             ELSE found

\* the root test (lines 457-470): the root call's Fun is a selector on
\* validate.Struct[T], the index expression itself and not a call of it
IsStructReceiver(fun) ==
    /\ fun.kind = "SelectorExpr"
    /\ fun.X.kind = "IndexExpr"
    /\ fun.X.X.kind = "SelectorExpr"
    /\ fun.X.X.X.kind = "Ident"
    /\ fun.X.X.X.Name = s_validate
    /\ fun.X.X.Sel.Name = s_Struct
    /\ fun.X.Index.kind = "Ident"

\* extractValidationSchema (lines 446-500)
extractValidationSchemaOfNames(expr) ==
    IF expr.kind # "CallExpr" THEN Nil
    ELSE LET rootCall == findRootCall(expr) IN
         IF ~IsStructReceiver(rootCall.Fun) THEN Nil
         ELSE [TypeName |-> rootCall.Fun.X.Index.Name,
               Fields |-> collectFieldsOfNames(expr, << >>)]

-----------------------------------------------------------------------------
(* The emitter.                                                            *)

s_Validate == << "V","a","l","i","d","a","t","e" >>
s_v == << "v" >>

\* the doc line the template writes above the schema variable
EmittedDoc(typeName) ==
    << "/","/"," " >> \o typeName \o s_Schema \o << " ","i","s"," ","t","h","e"," " >>
        \o s_validationSchemaFor \o << " " >> \o typeName

\* one field of the template's range: .Field(func(v T) Type { return v.Name },
\* validate.<capitalizeFirst Type>().<Method>(<Args>)...)
EmittedField(typeName, field) ==
    [c |-> "field", Sel |-> s_Field, nargs |-> 2,
     p |-> s_v, T |-> typeName, R |-> field.Type, x |-> s_v, F |-> field.Name,
     body |-> "return",
     ctor |-> capitalizeFirst(field.Type), cargs |-> << >>,
     steps |-> [i \in 1..Len(field.Validators) |->
                   [Sel |-> field.Validators[i].Method,
                    Args |-> field.Validators[i].Args]]]

\* the text tmpl.Execute writes, as the pieces it writes in order: the header
\* comment, the package clause, the import, the Validate<T> function and the
\* <T>Schema variable (kept as the text of a declaration)
Render(package, schema) ==
    << [c |-> "header"],
       [c |-> "package", name |-> package],
       [c |-> "import"],
       [c |-> "func", name |-> s_Validate \o schema.TypeName,
        param |-> schema.TypeName, calls |-> schema.TypeName \o s_Schema],
       [c |-> "var",
        decl |-> [form |-> "var", place |-> "top",
                  doc |-> << EmittedDoc(schema.TypeName) >>,
                  names |-> << schema.TypeName \o s_Schema >>,
                  values |-> << [head |-> [h |-> "generic", pkg |-> s_validate,
                                           fn |-> s_Struct, targ |-> schema.TypeName,
                                           args |-> << >>],
                                 calls |-> [i \in 1..Len(schema.Fields) |->
                                     EmittedField(schema.TypeName, schema.Fields[i])]] >>]] >>

\* a mistaken path: the type name is not lowercased
OutFileAsWritten(outputDir, typeName) == Join(outputDir, typeName \o s_validatorGo)

\* the path of a schema's output file
OutFile(outputDir, typeName) == Join(outputDir, ToLower(typeName) \o s_validatorGo)

\* os.MkdirAll
MkdirAll(fsys, dir) == [fsys EXCEPT !.dirs = @ \cup {dir}]

\* a mistaken open: an existing file keeps its content and is appended to
CreateKeeping(fsys, path) ==
    [fsys EXCEPT !.files = [q \in DOMAIN @ \cup {path} |->
                               IF q \in DOMAIN @ THEN @[q] ELSE << >>]]

\* os.Create: the file exists and is empty afterwards
Create(fsys, path) ==
    [fsys EXCEPT !.files = [q \in DOMAIN @ \cup {path} |->
                               IF q = path THEN << >> ELSE @[q]]]

\* writes to the open file
WriteFile(fsys, path, text) == [fsys EXCEPT !.files[path] = @ \o text]

GenError(msg) == [msg |-> msg]

\* generateValidator, run on file system fsys. fault names the call the
\* environment fails ("mkdir", "create", "execute" or "none"); a failing
\* Execute has written the first fault.n pieces of the text. The template
\* is a constant that parses, so template.Parse does not fail.
generateValidator(cfg, schema, fsys, fault) ==
    IF fault.at = "mkdir"
    THEN [fs |-> fsys, ops |-> << [op |-> "mkdir", path |-> cfg.OutputDir] >>,
          err |-> GenError("creating output directory")]
    ELSE
    LET outFile == OutFile(cfg.OutputDir, schema.TypeName)
        made == MkdirAll(fsys, cfg.OutputDir)
        opened == Create(made, outFile)
        text == Render(cfg.Package, schema)
    IN  IF fault.at = "create"
        THEN [fs |-> made,
              ops |-> << [op |-> "mkdir", path |-> cfg.OutputDir],
                         [op |-> "create", path |-> outFile] >>,
              err |-> GenError("creating output file")]
        ELSE IF fault.at = "execute"
        THEN [fs |-> WriteFile(opened, outFile, SubSeq(text, 1, fault.n)),
              ops |-> << [op |-> "mkdir", path |-> cfg.OutputDir],
                         [op |-> "create", path |-> outFile],
                         [op |-> "write", path |-> outFile] >>,
              err |-> GenError("executing template")]
        ELSE [fs |-> WriteFile(opened, outFile, text),
              ops |-> << [op |-> "mkdir", path |-> cfg.OutputDir],
                         [op |-> "create", path |-> outFile],
                         [op |-> "write", path |-> outFile] >>,
              err |-> Nil]

\* the faults the environment can inject into one generateValidator call: a
\* failing Execute stops before the last piece of the text is written
Faults(cfg, schema) ==
    { [at |-> a, n |-> 0] : a \in {"none", "mkdir", "create"} }
        \cup { [at |-> "execute", n |-> n] :
                 n \in 0..(Len(Render(cfg.Package, schema)) - 1) }

-----------------------------------------------------------------------------
(* One run of Generate against the file system, and a second run after it. *)

\* Most runs of Generate on the same input and output directory.
MaxRuns == 2

VARIABLES
    input,      \* the input file: whether it parses, and its declarations
    config,     \* the Config handed to Generate
    fs,         \* the file system: the directories and the files' contents
    pc,         \* "idle", "emit" (in the loop), "done" (nil), "failed" (error)
    schemas,    \* Generate's schemas
    next,       \* the index of the schema the loop emits next
    err,        \* the error Generate returned, Nil if none
    writes,     \* the file-system calls of this run, in order, with the schema
    start,      \* the file system when this run began
    run,        \* the number of this run
    osArgs,     \* the command line after the program name (os.Args[1:])
    stdout,     \* what the process has printed on its output stream
    stderr,     \* what the process has printed on its error stream
    exit,       \* the exit status of the process, Nil while it runs
    validator,  \* a validator or schema of pkg/validate, as built so far
    built,      \* the Min, Max and Field calls made on it, in order
    result      \* what Validate was given and returned, on the validator as it is

vars == << input, config, fs, pc, schemas, next, err, writes, start, run,
           osArgs, stdout, stderr, exit, validator, built, result >>

\* the state of the library object, which the command never touches
libVars == << validator, built, result >>

\* what Generate prints when Config.Verbose is set (lines 50-53)
VerboseDump(cfg) == IF cfg.Verbose THEN << "Parsed file", "ast.Print" >> ELSE << >>

\* a mistaken start: the output directory is made before the input is read
GenerateStartMakingDir ==
    /\ pc = "idle"
    /\ \/ /\ ~input.parses
          /\ pc' = "failed"
          /\ err' = [msg |-> "parsing input file"]
          /\ schemas' = << >>
       \/ /\ input.parses
          /\ findValidationSchemas(ParseFile(input)) = << >>
          /\ pc' = "failed"
          /\ err' = [msg |-> "no validation schemas found"]
          /\ schemas' = << >>
       \/ /\ input.parses
          /\ findValidationSchemas(ParseFile(input)) # << >>
          /\ pc' = "emit"
          /\ err' = Nil
          /\ schemas' = findValidationSchemas(ParseFile(input))
    /\ next' = 1
    /\ fs' = MkdirAll(fs, config.OutputDir)
    /\ writes' = writes \o << [op |-> "mkdir", path |-> config.OutputDir, schema |-> 0] >>
    /\ stdout' = IF input.parses THEN stdout \o VerboseDump(config) ELSE stdout
    /\ UNCHANGED << input, config, start, run, osArgs, stderr, exit, libVars >>

\* Generate, lines 42-59: parse the input and find the schemas
GenerateStart ==
    /\ pc = "idle"
    /\ \/ /\ ~input.parses
          /\ pc' = "failed"
          /\ err' = [msg |-> "parsing input file"]
          /\ schemas' = << >>
       \/ /\ input.parses
          /\ findValidationSchemas(ParseFile(input)) = << >>
          /\ pc' = "failed"
          /\ err' = [msg |-> "no validation schemas found"]
          /\ schemas' = << >>
       \/ /\ input.parses
          /\ findValidationSchemas(ParseFile(input)) # << >>
          /\ pc' = "emit"
          /\ err' = Nil
          /\ schemas' = findValidationSchemas(ParseFile(input))
    /\ next' = 1
    /\ stdout' = IF input.parses THEN stdout \o VerboseDump(config) ELSE stdout
    /\ UNCHANGED << input, config, fs, writes, start, run, osArgs, stderr, exit, libVars >>

\* Generate, lines 61-68: one turn of the loop, and the return after it
GenerateStep ==
    /\ pc = "emit"
    /\ \E fault \in Faults(config, schemas[next]) :
          LET r == generateValidator(config, schemas[next], fs, fault) IN
          /\ fs' = r.fs
          /\ writes' = writes \o [i \in 1..Len(r.ops) |->
                                     [op |-> r.ops[i].op, path |-> r.ops[i].path,
                                      schema |-> next]]
          /\ IF r.err # Nil
             THEN /\ pc' = "failed"
                  /\ err' = [msg |-> "generating validator for",
                             TypeName |-> schemas[next].TypeName, cause |-> r.err]
                  /\ next' = next
             ELSE /\ pc' = IF next = Len(schemas) THEN "done" ELSE "emit"
                  /\ err' = Nil
                  /\ next' = next + 1
    /\ UNCHANGED << input, config, schemas, start, run,
                    osArgs, stdout, stderr, exit, libVars >>

\* the command is invoked again with the same arguments after a run that
\* succeeded, nothing else having touched the file or the directory
Rerun ==
    /\ pc = "done"
    /\ run < MaxRuns
    /\ pc' = "idle"
    /\ run' = run + 1
    /\ start' = fs
    /\ writes' = << >>
    /\ schemas' = << >>
    /\ next' = 1
    /\ err' = Nil
    /\ stdout' = << >>
    /\ UNCHANGED << input, config, fs, osArgs, stderr, exit, libVars >>

Next == GenerateStart \/ GenerateStep \/ Rerun

-----------------------------------------------------------------------------
(* The inputs: the files, configurations and directories the run starts on.*)

s_User == << "U","s","e","r" >>
s_USER == << "U","S","E","R" >>
s_Invoice == << "I","n","v","o","i","c","e" >>
s_Order == << "O","r","d","e","r" >>
s_Account == << "A","c","c","o","u","n","t" >>
s_Ticket == << "T","i","c","k","e","t" >>
s_Username == << "U","s","e","r","n","a","m","e" >>
s_Email == << "E","m","a","i","l" >>
s_Age == << "A","g","e" >>
s_Phone == << "P","h","o","n","e" >>
s_Address == << "A","d","d","r","e","s","s" >>
s_Created == << "C","r","e","a","t","e","d" >>
s_Nested == << "N","e","s","t","e","d" >>
s_timeTime == << "t","i","m","e",".","T","i","m","e" >>
s_string == << "s","t","r","i","n","g" >>
s_int == << "i","n","t" >>
s_u == << "u" >>
s_MinLen == << "M","i","n","L","e","n" >>
s_MaxLen == << "M","a","x","L","e","n" >>
s_Min == << "M","i","n" >>
s_Time == << "T","i","m","e" >>
s_JSON == << "J","S","O","N" >>
s_After == << "A","f","t","e","r" >>
s_Describe == << "D","e","s","c","r","i","b","e" >>
s_other == << "o","t","h","e","r" >>
s_limit == << "l","i","m","i","t" >>
s_gen == << "g","e","n" >>
s_out == << "o","u","t" >>
s_models == << "m","o","d","e","l","s" >>
s_main == << "m","a","i","n" >>
t_3 == << "3" >>
t_30 == << "3","0" >>
t_13 == << "1","3" >>
t_neg5 == << "-","5" >>
t_note == << "\"","n","\"" >>
s_Between == << "B","e","t","w","e","e","n" >>
s_In == << "I","n" >>

\* "// OrderSchema is the validation schema for Order"
DocForOrder == << "/","/"," " >> \o s_Order \o s_Schema \o << " ","i","s"," ","t","h","e"," " >>
                   \o s_validationSchemaFor \o << " " >> \o s_Order
\* "// rules"
DocPlain == << "/","/"," ","r","u","l","e","s" >>

SeqsUpTo(S, n) == UNION { [1..k -> S] : k \in 0..n }

Step(sel, args) == [Sel |-> sel, Args |-> args]

\* Field(func(u User) R { return u.F }, validate.ctor().steps)
FieldCall(F, R, ctor, steps) ==
    [c |-> "field", Sel |-> s_Field, nargs |-> 2, p |-> s_u, T |-> s_User, R |-> R,
     x |-> s_u, F |-> F, body |-> "return", ctor |-> ctor, cargs |-> << >>,
     steps |-> steps]

FieldUsername ==
    FieldCall(s_Username, s_string, s_String,
              << Step(s_MinLen, << t_3 >>), Step(s_MaxLen, << t_30 >>) >>)
FieldEmail == FieldCall(s_Email, s_string, s_String, << Step(s_Email, << >>) >>)
FieldAge == FieldCall(s_Age, s_int, s_Int, << Step(s_Min, << t_13 >>) >>)
\* a Field call written with three arguments
FieldPhone3 == [FieldCall(s_Phone, s_string, s_String, << >>) EXCEPT !.nargs = 3]
\* a call of another method in the chain: .Describe("n")
CallDescribe == [c |-> "plain", Sel |-> s_Describe, Args |-> << t_note >>]

\* Field(func(u User) time.Time { return u.Created }, validate.Time().After(limit))
FieldCreated ==
    FieldCall(s_Created, s_timeTime, s_Time, << Step(s_After, << s_limit >>) >>)
\* Field(func(u User) Address { return u.Address }, validate.Nested(AddressSchema))
FieldAddress ==
    [FieldCall(s_Address, s_Address, s_Nested, << >>)
        EXCEPT !.cargs = << s_Address \o s_Schema >>]

CallKinds ==
    { FieldUsername, FieldEmail, FieldAge, FieldPhone3, CallDescribe,
      FieldCreated, FieldAddress }

StepKinds ==
    { Step(s_MinLen, << t_3 >>), Step(s_MaxLen, << t_30 >>), Step(s_Email, << >>),
      Step(s_Min, << t_neg5 >>), Step(s_After, << s_limit >>), Step(s_String, << >>),
      Step(s_Between, << t_neg5, t_30 >>), Step(s_In, << t_note, s_limit >>),
      Step(s_After, << s_timeTime >>) }

CtorKinds == { s_String, s_Int, s_Time, s_JSON }

StructOf(targ) ==
    [h |-> "generic", pkg |-> s_validate, fn |-> s_Struct, targ |-> targ, args |-> << >>]
\* validate.Struct(), other.Struct[User](), validate.Time[User](), limit,
\* validate.Struct[User](limit), validate.Struct[models.User](),
\* validate.Struct[User]
HeadKinds ==
    { StructOf(s_User),
      [h |-> "plain", pkg |-> s_validate, fn |-> s_Struct],
      [h |-> "generic", pkg |-> s_other, fn |-> s_Struct, targ |-> s_User, args |-> << >>],
      [h |-> "generic", pkg |-> s_validate, fn |-> s_Time, targ |-> s_User, args |-> << >>],
      [h |-> "ident", name |-> s_limit],
      [StructOf(s_User) EXCEPT !.args = << s_limit >>],
      [h |-> "qualified", pkg |-> s_validate, fn |-> s_Struct,
       tpkg |-> s_models, targ |-> s_User],
      [h |-> "index", pkg |-> s_validate, fn |-> s_Struct, targ |-> s_User] }

VarDecl(doc, name, head, calls) ==
    [form |-> "var", place |-> "top", doc |-> doc, names |-> << name >>,
     values |-> << [head |-> head, calls |-> calls] >>]

FormKinds ==
    { [form |-> "var", place |-> "top"], [form |-> "var", place |-> "func"],
      [form |-> "const", place |-> "top"], [form |-> "define", place |-> "func"] }

\* one declaration with a chain of up to MaxFields calls
ChainDecls ==
    { VarDecl(<< >>, s_User \o s_Schema, StructOf(s_User), calls) :
        calls \in SeqsUpTo(CallKinds, MaxFields) }

\* Field calls on Email whose first argument is not { return u.Email }:
\* the other bodies, a name, and a projection of another variable than the
\* parameter ({ return other.Email })
SelectorKinds ==
    { [FieldEmail EXCEPT !.body = b] :
        b \in { "returnThenMore", "assignFirst", "returnParam", "returnNothing",
                "empty", "name" } }
        \cup { [FieldEmail EXCEPT !.x = s_other] }

\* one declaration with such a call, alone, after or before a Field call on Age
SelectorDecls ==
    { VarDecl(<< >>, s_User \o s_Schema, StructOf(s_User), calls) :
        calls \in UNION { { << f >>, << FieldAge, f >>, << f, FieldAge >> } :
                             f \in SelectorKinds } }

\* one declaration with one field and up to MaxValidators validator steps
ValidatorDecls ==
    { VarDecl(<< >>, s_User \o s_Schema, StructOf(s_User),
              << FieldCall(s_Username, s_string, ctor, steps) >>) :
        ctor \in CtorKinds, steps \in SeqsUpTo(StepKinds, MaxValidators) }

\* one declaration in every form, with and without a doc comment
NamedDecls ==
    { [VarDecl(doc, name, head, calls) EXCEPT !.form = k.form, !.place = k.place] :
        doc \in { << >>, << DocForOrder >>, << DocPlain >> },
        name \in { s_Account \o s_Schema, s_Ticket, s_Schema },
        head \in HeadKinds,
        calls \in { << >>, << FieldAge >> },
        k \in FormKinds }

\* the declarations of the files with several declarations
FileDecls ==
    { VarDecl(<< >>, s_User \o s_Schema, StructOf(s_User), << FieldUsername >>),
      VarDecl(<< >>, s_Account \o s_Schema, StructOf(s_User), << FieldEmail, FieldAge >>),
      VarDecl(<< >>, s_Ticket, StructOf(s_USER), << FieldAge >>),
      VarDecl(<< DocPlain >>, s_Schema, StructOf(s_Invoice), << >>),
      VarDecl(<< >>, s_Phone, [h |-> "ident", name |-> s_limit], << >>),
      [VarDecl(<< >>, s_Order, StructOf(s_Order), << FieldAge >>) EXCEPT !.form = "const"] }

\* the files of up to n of these declarations: a file that declares a name
\* twice does not parse (the parser reports the redeclaration)
FilesUpTo(n) ==
    { ds \in SeqsUpTo(FileDecls, n) :
        \A i, j \in 1..Len(ds) : i # j => ds[i].names # ds[j].names }

Configs ==
    { [InputFile |-> << "a",".","g","o" >>, OutputDir |-> s_gen, Package |-> s_models,
       Verbose |-> FALSE],
      [InputFile |-> << "a",".","g","o" >>, OutputDir |-> s_out, Package |-> s_main,
       Verbose |-> TRUE] }

\* what an earlier, unrelated writer left in a file
StaleText == << [c |-> "header"], [c |-> "package", name |-> s_other] >>

\* the output directory is absent, or empty, or holds files already
Directories(dir) ==
    { [dirs |-> { }, files |-> << >>],
      [dirs |-> { dir }, files |-> << >>],
      [dirs |-> { dir },
       files |-> [q \in { Join(dir, << "i","n","v","o","i","c","e" >> \o s_validatorGo),
                          Join(dir, << "u","s","e","r" >> \o s_validatorGo),
                          Join(dir, << "n","o","t","e","s" >>) } |-> StaleText]] }

Inputs ==
    { [input |-> [parses |-> TRUE, decls |-> << d >>], config |-> c,
       fs |-> [dirs |-> { }, files |-> << >>]] :
        d \in ChainDecls \cup ValidatorDecls \cup NamedDecls \cup SelectorDecls,
        c \in { cc \in Configs : cc.OutputDir = s_gen } }
    \cup
    { [input |-> [parses |-> ok, decls |-> ds], config |-> c, fs |-> d] :
        ok \in BOOLEAN, ds \in FilesUpTo(MaxDecls), c \in Configs,
        d \in UNION { Directories(cc.OutputDir) : cc \in Configs } }

Init ==
    /\ \E i \in Inputs :
          /\ input = i.input
          /\ config = i.config
          /\ fs = i.fs
          /\ start = i.fs
    /\ pc = "idle"
    /\ schemas = << >>
    /\ next = 1
    /\ err = Nil
    /\ writes = << >>
    /\ run = 1
    /\ osArgs = << >>
    /\ stdout = << >>
    /\ stderr = << >>
    /\ exit = Nil
    /\ validator = Nil
    /\ built = << >>
    /\ result = Nil

Spec == Init /\ [][Next]_vars

-----------------------------------------------------------------------------
(* The command: main of cmd/tibeb, around one call of Generate.            *)

s_dashFile == << "-","f","i","l","e" >>
s_dashOut == << "-","o","u","t" >>
s_dashPkg == << "-","p","k","g" >>
s_dashVerbose == << "-","v","e","r","b","o","s","e" >>
s_dashForce == << "-","f","o","r","c","e" >>
s_dot == << "." >>
s_userGo == << "u","s","e","r",".","g","o" >>
s_modelsUserGo == s_models \o << "/" >> \o s_userGo
s_outModels == s_out \o << "/" >> \o s_models

\* the index of the last "/" of a path, 0 when it has none
LastSlash(path) ==
    IF \E i \in 1..Len(path) : path[i] = "/"
    THEN CHOOSE i \in 1..Len(path) :
            path[i] = "/" /\ \A j \in (i + 1)..Len(path) : path[j] # "/"
    ELSE 0

\* filepath.Dir of a clean path
Dir(path) ==
    IF LastSlash(path) = 0 THEN s_dot
    ELSE IF LastSlash(path) = 1 THEN << "/" >>
    ELSE SubSeq(path, 1, LastSlash(path) - 1)

\* filepath.Base of a clean path
Base(path) ==
    IF path = << >> THEN s_dot
    ELSE IF path = << "/" >> THEN path
    ELSE SubSeq(path, LastSlash(path) + 1, Len(path))

\* the flag set genCmd before it parses anything (lines 13-24)
NoFlags == [ok |-> TRUE, inputFile |-> << >>, outputDir |-> << >>,
            pkgName |-> << >>, verbose |-> FALSE]

\* genCmd.Parse: the tokens are read left to right into the flags so far.
\* -verbose stands alone, the other flags take the next token as their value;
\* a flag that is not defined, or a flag without its value, is an error, and
\* a token that is no flag ends the parsing
RECURSIVE ParseFlags(_, _)
ParseFlags(tokens, flags) ==
    IF tokens = << >> THEN flags
    ELSE LET name == Head(tokens) IN
         IF name[1] # "-" THEN flags
         ELSE IF name = s_dashVerbose
              THEN ParseFlags(Tail(tokens), [flags EXCEPT !.verbose = TRUE])
         ELSE IF name \notin { s_dashFile, s_dashOut, s_dashPkg }
              THEN [flags EXCEPT !.ok = FALSE]
         ELSE IF Len(tokens) < 2 THEN [flags EXCEPT !.ok = FALSE]
         ELSE ParseFlags(
                 SubSeq(tokens, 3, Len(tokens)),
                 IF name = s_dashFile THEN [flags EXCEPT !.inputFile = tokens[2]]
                 ELSE IF name = s_dashOut THEN [flags EXCEPT !.outputDir = tokens[2]]
                 ELSE [flags EXCEPT !.pkgName = tokens[2]])

\* the Config main builds from the flags (lines 45-59)
ConfigOf(flags) ==
    [InputFile |-> flags.inputFile,
     OutputDir |-> IF flags.outputDir = << >> THEN Dir(flags.inputFile)
                   ELSE flags.outputDir,
     Package |-> IF flags.pkgName = << >> THEN Base(Dir(flags.inputFile))
                 ELSE flags.pkgName,
     Verbose |-> flags.verbose]

\* main, lines 12-59: up to the call of Generate, or to os.Exit
MainStart ==
    /\ pc = "main"
    /\ \/ /\ Len(osArgs) < 1
          /\ stdout' = stdout \o << "expected 'gen' subcommand" >>
          /\ exit' = [code |-> 1]
          /\ pc' = "exited"
          /\ UNCHANGED << config, stderr >>
       \/ /\ Len(osArgs) >= 1
          /\ osArgs[1] # s_gen
          /\ stdout' = stdout \o << "unknown subcommand" >>
          /\ exit' = [code |-> 1]
          /\ pc' = "exited"
          /\ UNCHANGED << config, stderr >>
       \/ /\ Len(osArgs) >= 1
          /\ osArgs[1] = s_gen
          /\ LET flags == ParseFlags(Tail(osArgs), NoFlags) IN
             IF ~flags.ok
             THEN /\ stderr' = stderr \o << "flag error", "usage" >>
                  /\ exit' = [code |-> 2]
                  /\ pc' = "exited"
                  /\ UNCHANGED << config, stdout >>
             ELSE IF flags.inputFile = << >>
             THEN /\ stderr' = stderr \o << "Error: input file is required", "usage" >>
                  /\ exit' = [code |-> 1]
                  /\ pc' = "exited"
                  /\ UNCHANGED << config, stdout >>
             ELSE /\ config' = ConfigOf(flags)
                  /\ pc' = "idle"
                  /\ UNCHANGED << stdout, stderr, exit >>
    /\ UNCHANGED << input, fs, schemas, next, err, writes, start, run, osArgs, libVars >>

\* main, lines 61-65: Generate has returned
MainExit ==
    /\ pc \in {"done", "failed"}
    /\ IF pc = "failed"
       THEN /\ stderr' = stderr \o << "Error: " \o err.msg >>
            /\ exit' = [code |-> 1]
       ELSE /\ exit' = [code |-> 0]
            /\ UNCHANGED stderr
    /\ pc' = "exited"
    /\ UNCHANGED << input, config, fs, schemas, next, err, writes, start, run,
                    osArgs, stdout, libVars >>

NextCLI == MainStart \/ GenerateStart \/ GenerateStep \/ MainExit

\* the command lines: nothing, another subcommand, or gen with its flags
FileArgs == { << >>, << s_dashFile, s_modelsUserGo >>, << s_dashFile, s_userGo >> }
OutArgs == { << >>, << s_dashOut, s_gen >>, << s_dashOut, s_models >>,
             << s_dashOut, s_outModels >> }
PkgArgs == { << >>, << s_dashPkg, s_main >> }
MoreArgs == { << >>, << s_dashVerbose >>, << s_dashForce >>, << s_dashPkg >> }

CommandLines ==
    { << >>, << s_other >> }
        \cup { << s_gen >> \o f \o o \o p \o m :
                  f \in FileArgs, o \in OutArgs, p \in PkgArgs, m \in MoreArgs }
        \cup { << s_gen >> \o o \o f : f \in FileArgs, o \in OutArgs }

InitCLI ==
    /\ osArgs \in CommandLines
    /\ \E ok \in BOOLEAN, ds \in FilesUpTo(1) :
          input = [parses |-> ok, decls |-> ds]
    /\ \E d \in Directories(s_gen) : fs = d /\ start = d
    /\ config = Nil
    /\ pc = "main"
    /\ schemas = << >>
    /\ next = 1
    /\ err = Nil
    /\ writes = << >>
    /\ run = 1
    /\ stdout = << >>
    /\ stderr = << >>
    /\ exit = Nil
    /\ validator = Nil
    /\ built = << >>
    /\ result = Nil

SpecCLI == InitCLI /\ [][NextCLI]_vars

-----------------------------------------------------------------------------
(* pkg/validate: the validators, the combinators and the struct schema.    *)

\* a pointer field: nil, or the value it points to
NilPtr == << >>
Ptr(x) == << x >>
Deref(p) == p[1]

\* &Error{Code: code}: Field is empty until Schema.Validate sets it; the
\* Message is fixed by the Code and is not carried
Error(code) == [Field |-> "", Code |-> code]

\* a run-time panic, which ends every call on the stack
Panic(msg) == [panic |-> msg]
IsPanic(r) == "panic" \in DOMAIN r

\* Int()
IntValidator ==
    [type |-> "IntValidator", min |-> NilPtr, max |-> NilPtr,
     positive |-> FALSE, negative |-> FALSE]

\* a mistaken Min: a bound already set is kept
MinKeepingEarlier(v, value) ==
    IF v.min = NilPtr THEN [v EXCEPT !.min = Ptr(value)] ELSE v

\* the builder methods of IntValidator
Min(v, value) == [v EXCEPT !.min = Ptr(value)]
Max(v, value) == [v EXCEPT !.max = Ptr(value)]
Positive(v) == [v EXCEPT !.positive = TRUE]
Negative(v) == [v EXCEPT !.negative = TRUE]

\* IntValidator.Validate
IntValidate(v, value) ==
    IF v.min # NilPtr /\ value < Deref(v.min) THEN Error("too_small")
    ELSE IF v.max # NilPtr /\ value > Deref(v.max) THEN Error("too_large")
    ELSE IF v.positive /\ value <= 0 THEN Error("not_positive")
    ELSE IF v.negative /\ value >= 0 THEN Error("not_negative")
    ELSE Nil

\* String()
StringValidator ==
    [type |-> "StringValidator", minLen |-> NilPtr, maxLen |-> NilPtr,
     pattern |-> NilPtr, email |-> FALSE, custom |-> NilPtr, required |-> FALSE,
     defaultVal |-> NilPtr, optional |-> FALSE]

\* the builder methods of StringValidator; Matches is Pattern under another
\* name, and Catch stores nothing
MinLen(v, length) == [v EXCEPT !.minLen = Ptr(length)]
MaxLen(v, length) == [v EXCEPT !.maxLen = Ptr(length)]
Pattern(v, pattern) == [v EXCEPT !.pattern = Ptr(pattern)]
Matches(v, pattern) == Pattern(v, pattern)
Default(v, val) == [v EXCEPT !.defaultVal = Ptr(val)]
Optional(v) == [v EXCEPT !.optional = TRUE]
Catch(v, val) == v
Email(v) == [v EXCEPT !.email = TRUE]
Required(v) == [v EXCEPT !.required = TRUE]
Custom(v, fn) == [v EXCEPT !.custom = Ptr(fn)]

\* the pattern ^[a-z]+$
s_lowerWord == << "^","[","a","-","z","]","+","$" >>

\* the pattern (?i)admin
s_anyAdmin == << "(","?","i",")","a","d","m","i","n" >>

\* regexp.MatchString, for the patterns ^[a-z]+$ and (?i)admin
MatchString(pattern, value) ==
    IF pattern = s_lowerWord
    THEN /\ Len(value) > 0
         /\ \A i \in 1..Len(value) : \E j \in 1..Len(LowerChars) : value[i] = LowerChars[j]
    ELSE Contains(ToLower(value), << "a","d","m","i","n" >>)

\* the custom rule validateUsername of examples/advanced
validateUsername(username) ==
    IF Len(username) < 8 THEN Error("username_too_short")
    ELSE IF ~Contains(username, << "_" >>) THEN Error("invalid_username_format")
    ELSE Nil

\* the custom rule validateZipCode of examples/advanced
validateZipCode(zipCode) ==
    IF Len(zipCode) # 5 THEN Error("invalid_zipcode_length")
    ELSE IF \E i \in 1..Len(zipCode) : zipCode[i] \notin Digits
         THEN Error("invalid_zipcode_format")
    ELSE Nil

\* a call of the function a Custom rule holds
CallCustom(fn, value) ==
    IF fn = "validateUsername" THEN validateUsername(value) ELSE validateZipCode(value)

\* a mistaken substitution: only the empty string gets the default
WithDefaultWhenEmpty(v, value) ==
    IF v.defaultVal # NilPtr /\ Len(value) = 0 THEN Deref(v.defaultVal) ELSE value

\* StringValidator.Validate, lines 967-970: the value the rules are checked on
WithDefault(v, value) ==
    IF v.defaultVal # NilPtr /\ Len(TrimSpace(value)) = 0
    THEN Deref(v.defaultVal) ELSE value

\* StringValidator.Validate, lines 972-1027: the rules
CheckRules(v, value) ==
    IF v.required /\ Len(TrimSpace(value)) = 0 THEN Error("required")
    ELSE IF v.optional /\ Len(TrimSpace(value)) = 0 THEN Nil
    ELSE IF v.minLen # NilPtr /\ Len(value) < Deref(v.minLen) THEN Error("too_short")
    ELSE IF v.maxLen # NilPtr /\ Len(value) > Deref(v.maxLen) THEN Error("too_long")
    ELSE IF v.pattern # NilPtr /\ ~MatchString(Deref(v.pattern), value)
         THEN Error("invalid_format")
    ELSE IF v.email /\ (~Contains(value, << "@" >>) \/ ~Contains(value, << "." >>))
         THEN Error("invalid_email")
    ELSE IF v.custom # NilPtr THEN CallCustom(Deref(v.custom), value)
    ELSE Nil

\* StringValidator.Validate
StringValidate(v, value) == CheckRules(v, WithDefault(v, value))

\* OneOf, AllOf, Not
OneOf(validators) == [type |-> "OneOfValidator", validators |-> validators]
AllOf(validators) == [type |-> "AllOfValidator", validators |-> validators]
Not(v) == [type |-> "NotValidator", validator |-> v]

RECURSIVE Validate(_, _)
RECURSIVE NestedValidate(_, _)
RECURSIVE OneOfValidate(_, _, _)
RECURSIVE AllOfValidate(_, _)
RECURSIVE AllOfValidateToTheEnd(_, _)

\* OneOfValidator.Validate: the loop over the validators left, with the last
\* error so far, and the return after it; reading lastError.Field of a nil
\* lastError is a nil pointer dereference
OneOfValidate(validators, value, lastError) ==
    IF validators = << >>
    THEN IF lastError = Nil
         THEN Panic("invalid memory address or nil pointer dereference")
         ELSE [Field |-> lastError.Field, Code |-> "no_match"]
    ELSE LET e == Validate(Head(validators), value) IN
         IF IsPanic(e) THEN e
         ELSE IF e = Nil THEN Nil
         ELSE OneOfValidate(Tail(validators), value, e)

\* a mistaken AllOf: every validator is run and the last failure is returned
AllOfValidateToTheEnd(validators, value) ==
    IF validators = << >> THEN Nil
    ELSE LET e == Validate(Head(validators), value)
             rest == AllOfValidateToTheEnd(Tail(validators), value)
         IN  IF IsPanic(e) THEN e
             ELSE IF rest # Nil THEN rest
             ELSE e

\* AllOfValidator.Validate
AllOfValidate(validators, value) ==
    IF validators = << >> THEN Nil
    ELSE LET e == Validate(Head(validators), value) IN
         IF e # Nil THEN e ELSE AllOfValidate(Tail(validators), value)

\* NotValidator.Validate
NotValidate(v, value) ==
    LET e == Validate(v.validator, value) IN
    IF IsPanic(e) THEN e
    ELSE IF e = Nil THEN Error("invalid_match")
    ELSE Nil

\* Validator[T].Validate, by the type of the receiver
Validate(v, value) ==
    IF v.type = "IntValidator" THEN IntValidate(v, value)
    ELSE IF v.type = "StringValidator" THEN StringValidate(v, value)
    ELSE IF v.type = "OneOfValidator" THEN OneOfValidate(v.validators, value, Nil)
    ELSE IF v.type = "AllOfValidator" THEN AllOfValidate(v.validators, value)
    ELSE IF v.type = "NestedValidator" THEN NestedValidate(v, value)
    ELSE NotValidate(v, value)

\* the struct type User of the examples: its fields, in declaration order
\* (Address is the nested struct of examples/advanced)
UserFields ==
    << [Name |-> "Username", Type |-> "string"],
       [Name |-> "Email", Type |-> "string"],
       [Name |-> "Age", Type |-> "int"],
       [Name |-> "Address", Type |-> "Address"] >>

\* the struct type Address of examples/advanced
AddressFields ==
    << [Name |-> "Street", Type |-> "string"],
       [Name |-> "City", Type |-> "string"],
       [Name |-> "Country", Type |-> "string"],
       [Name |-> "ZipCode", Type |-> "string"] >>

\* func(t T) <Type> { return t.<Name> }, for the i-th field of the struct T
SelectorOf(fields, i) == [field |-> fields[i].Name, type |-> fields[i].Type]

\* func(u User) <Type> { return u.<Name> }, for the i-th field of User
Selector(i) == SelectorOf(UserFields, i)

\* Struct[T](), for the struct T of the given fields
StructFor(fields) == [type |-> "Schema", of |-> fields, rules |-> << >>]

\* Struct[User]()
Struct == StructFor(UserFields)

\* Schema.Field, lines 98-113: the name of the first field of T whose type is
\* the type of the selector's result, "" when there is none
FieldNameOf(fields, selectorType) ==
    IF \E i \in 1..Len(fields) : fields[i].Type = selectorType
    THEN fields[CHOOSE i \in 1..Len(fields) :
                   /\ fields[i].Type = selectorType
                   /\ \A j \in 1..(i - 1) : fields[j].Type # selectorType].Name
    ELSE ""

\* Schema.Field
Field(s, selector, v) ==
    [s EXCEPT !.rules =
        Append(@, [selector |-> selector, rule |-> v,
                   field |-> FieldNameOf(s.of, selector.type)])]

\* Nested
Nested(schema) == [type |-> "NestedValidator", schema |-> schema]

\* the type of the value a validator's Validate method takes
RECURSIVE ParamType(_)
ParamType(v) ==
    IF v.type = "IntValidator" THEN "int"
    ELSE IF v.type = "StringValidator" THEN "string"
    ELSE IF v.type = "NestedValidator" THEN "Address"
    ELSE IF v.type = "NotValidator" THEN ParamType(v.validator)
    ELSE IF v.validators = << >> THEN "int"
    ELSE ParamType(v.validators[1])

\* the wrapper Field puts around the validator (lines 128-137): the Validate
\* method is called by reflection, which panics when the value is not of the
\* method's parameter type
RuleValidate(rule, value) ==
    IF rule.selector.type # ParamType(rule.rule)
    THEN Panic("reflect: Call using " \o rule.selector.type \o " as type "
                   \o ParamType(rule.rule))
    ELSE Validate(rule.rule, value)

\* Errors: Add, HasErrors, Get
Errors == [errors |-> << >>]
Add(e, error) == [e EXCEPT !.errors = Append(@, error)]
HasErrors(e) == Len(e.errors) > 0
Get(e) == e.errors

\* a mistaken loop: it stops at the first rule that fails
RECURSIVE ValidateRulesStopping(_, _, _)
ValidateRulesStopping(rules, value, errors) ==
    IF rules = << >> THEN errors
    ELSE LET rule == Head(rules)
             e == RuleValidate(rule, value[rule.selector.field])
         IN  IF IsPanic(e) THEN e
             ELSE IF e # Nil THEN Add(errors, [e EXCEPT !.Field = rule.field])
             ELSE ValidateRulesStopping(Tail(rules), value, errors)

\* Schema.Validate: the loop over the rules left, with the errors so far
RECURSIVE ValidateRules(_, _, _)
ValidateRules(rules, value, errors) ==
    IF rules = << >> THEN errors
    ELSE LET rule == Head(rules)
             e == RuleValidate(rule, value[rule.selector.field])
         IN  IF IsPanic(e) THEN e
             ELSE ValidateRules(
                     Tail(rules), value,
                     IF e # Nil THEN Add(errors, [e EXCEPT !.Field = rule.field])
                     ELSE errors)

\* Schema.Validate
SchemaValidate(s, value) == ValidateRules(s.rules, value, Errors)

\* NestedValidator.Validate: the first error of the inner schema, copied
NestedValidate(v, value) ==
    LET errs == SchemaValidate(v.schema, value) IN
    IF IsPanic(errs) THEN errs
    ELSE IF HasErrors(errs)
         THEN LET firstErr == Get(errs)[1] IN
              [Field |-> firstErr.Field, Code |-> firstErr.Code]
    ELSE Nil

-----------------------------------------------------------------------------
(* A program that builds one validator or schema and calls Validate on it. *)

\* Most calls of Min and Max on one IntValidator.
MaxCalls == 3
\* Most rules of one schema.
MaxRules == 3
\* Most validators handed to one OneOf or AllOf.
MaxOperands == 2

\* the command's variables, which the library never touches
genVars == << input, config, fs, pc, schemas, next, err, writes, start, run,
              osArgs, stdout, stderr, exit >>

\* the arguments and values of the program
IntArgs == { 0, 13, 19 }
IntValues == { -1, 0, 1, 12, 13, 14, 19, 20 }
LenArgs == { 3 }
MaxLenArgs == { 6 }
t_blank == << " " >>
t_anon == << "a","n","o","n" >>
t_jo == << "j","o" >>
t_john == << "j","o","h","n" >>
t_mail == << "j","@","x",".","i","o" >>
t_johnDoe == << "j","o","h","n","_","d","o","e" >>
t_zip == << "1","2","3","4","5" >>
StringValues == { << >>, t_blank, t_jo, t_john, t_mail, t_johnDoe, t_zip }
DefaultArgs == { t_anon, t_blank }
PatternArgs == { s_lowerWord }
CustomArgs == { "validateUsername", "validateZipCode" }

IsInt == validator.type = "IntValidator"
IsString == validator.type = "StringValidator"
IsSchema == validator.type = "Schema"
IsCombinator == validator.type \in { "OneOfValidator", "AllOfValidator", "NotValidator" }

CallMin ==
    /\ IsInt /\ Len(built) < MaxCalls
    /\ \E value \in IntArgs :
          /\ validator' = Min(validator, value)
          /\ built' = Append(built, [method |-> "Min", value |-> value])
    /\ result' = Nil
    /\ UNCHANGED genVars

CallMax ==
    /\ IsInt /\ Len(built) < MaxCalls
    /\ \E value \in IntArgs :
          /\ validator' = Max(validator, value)
          /\ built' = Append(built, [method |-> "Max", value |-> value])
    /\ result' = Nil
    /\ UNCHANGED genVars

CallPositive ==
    /\ IsInt
    /\ validator' = Positive(validator)
    /\ result' = Nil
    /\ UNCHANGED << genVars, built >>

CallNegative ==
    /\ IsInt
    /\ validator' = Negative(validator)
    /\ result' = Nil
    /\ UNCHANGED << genVars, built >>

CallMinLen ==
    /\ IsString
    /\ \E length \in LenArgs : validator' = MinLen(validator, length)
    /\ result' = Nil
    /\ UNCHANGED << genVars, built >>

CallMaxLen ==
    /\ IsString
    /\ \E length \in MaxLenArgs : validator' = MaxLen(validator, length)
    /\ result' = Nil
    /\ UNCHANGED << genVars, built >>

CallPattern ==
    /\ IsString
    /\ \E pattern \in PatternArgs : validator' = Pattern(validator, pattern)
    /\ result' = Nil
    /\ UNCHANGED << genVars, built >>

CallMatches ==
    /\ IsString
    /\ \E pattern \in PatternArgs : validator' = Matches(validator, pattern)
    /\ result' = Nil
    /\ UNCHANGED << genVars, built >>

CallDefault ==
    /\ IsString
    /\ \E val \in DefaultArgs : validator' = Default(validator, val)
    /\ result' = Nil
    /\ UNCHANGED << genVars, built >>

CallOptional ==
    /\ IsString
    /\ validator' = Optional(validator)
    /\ result' = Nil
    /\ UNCHANGED << genVars, built >>

CallCatch ==
    /\ IsString
    /\ \E val \in DefaultArgs : validator' = Catch(validator, val)
    /\ result' = Nil
    /\ UNCHANGED << genVars, built >>

CallEmail ==
    /\ IsString
    /\ validator' = Email(validator)
    /\ result' = Nil
    /\ UNCHANGED << genVars, built >>

CallRequired ==
    /\ IsString
    /\ validator' = Required(validator)
    /\ result' = Nil
    /\ UNCHANGED << genVars, built >>

CallCustomRule ==
    /\ IsString
    /\ \E fn \in CustomArgs : validator' = Custom(validator, fn)
    /\ result' = Nil
    /\ UNCHANGED << genVars, built >>

\* Validate on an IntValidator, a StringValidator or a combinator
CallValidate ==
    /\ IsInt \/ IsString \/ IsCombinator
    /\ \E value \in IF IsString THEN StringValues ELSE IntValues :
          result' = [value |-> value, out |-> Validate(validator, value)]
    /\ UNCHANGED << genVars, validator, built >>

t_rome == << "R","o","m","e" >>
t_mainStreet == << "1","2"," ","M","a","i","n" >>

\* addressSchema of examples/advanced: the rules on Street and City
AddressSchema ==
    Field(Field(StructFor(AddressFields),
                SelectorOf(AddressFields, 1), MinLen(StringValidator, 5)),
          SelectorOf(AddressFields, 2), Required(StringValidator))

\* the values of Address: a valid one, one whose City is empty, one whose
\* Street is too short and whose City is empty
Addresses ==
    { [Street |-> street, City |-> city, Country |-> << "I","T" >>, ZipCode |-> t_zip] :
        street \in { t_mainStreet }, city \in { t_rome, << >> } }
        \cup { [Street |-> t_zip, City |-> << >>, Country |-> << >>, ZipCode |-> << >>],
               [Street |-> t_jo, City |-> << >>, Country |-> << >>, ZipCode |-> << >>] }

\* the rules the program gives to Field: those of examples/basic, the Age and
\* Address rules of examples/advanced, and a string validator on the int
\* field Age
RuleKinds ==
    { [selector |-> Selector(1), rule |-> MinLen(StringValidator, 3)],
      [selector |-> Selector(2), rule |-> Email(StringValidator)],
      [selector |-> Selector(3), rule |-> Min(IntValidator, 13)],
      [selector |-> Selector(3),
       rule |-> OneOf(<< Max(Min(IntValidator, 13), 19), Min(IntValidator, 65) >>)],
      [selector |-> Selector(3), rule |-> Required(StringValidator)],
      [selector |-> Selector(4), rule |-> Nested(AddressSchema)] }

Users ==
    [Username : { t_jo, t_john }, Email : { t_john, t_mail }, Age : { 10, 25 },
     Address : Addresses]

CallField ==
    /\ IsSchema /\ Len(validator.rules) < MaxRules
    /\ \E r \in RuleKinds :
          /\ validator' = Field(validator, r.selector, r.rule)
          /\ built' = Append(built, [method |-> "Field", selector |-> r.selector,
                                     rule |-> r.rule])
    /\ result' = Nil
    /\ UNCHANGED genVars

CallSchemaValidate ==
    /\ IsSchema
    /\ \E value \in Users :
          result' = [value |-> value, out |-> SchemaValidate(validator, value)]
    /\ UNCHANGED << genVars, validator, built >>

NextValidate ==
    \/ CallMin \/ CallMax \/ CallPositive \/ CallNegative
    \/ CallMinLen \/ CallMaxLen \/ CallPattern \/ CallMatches \/ CallDefault
    \/ CallOptional \/ CallCatch \/ CallEmail \/ CallRequired \/ CallCustomRule
    \/ CallValidate \/ CallField \/ CallSchemaValidate

\* the validators of examples/advanced that OneOf, AllOf and Not are given
Leaves ==
    { Max(Min(IntValidator, 13), 19), Min(IntValidator, 65), Positive(IntValidator) }

\* combinators of validators, and combinators of those
Combined ==
    { OneOf(vs) : vs \in SeqsUpTo(Leaves, MaxOperands) }
        \cup { AllOf(vs) : vs \in SeqsUpTo(Leaves, MaxOperands) }
        \cup { Not(v) : v \in Leaves }

Combinators ==
    Combined
        \cup { Not(c) : c \in Combined }
        \cup { OneOf(<< c, v >>) : c \in Combined, v \in Leaves }
        \cup { AllOf(<< v, c >>) : c \in Combined, v \in Leaves }

InitValidate ==
    /\ validator \in { IntValidator, StringValidator, Struct } \cup Combinators
    /\ built = << >>
    /\ result = Nil
    /\ input = [parses |-> FALSE, decls |-> << >>]
    /\ config = Nil
    /\ fs = [dirs |-> { }, files |-> << >>]
    /\ start = [dirs |-> { }, files |-> << >>]
    /\ pc = "idle"
    /\ schemas = << >>
    /\ next = 1
    /\ err = Nil
    /\ writes = << >>
    /\ run = 1
    /\ osArgs = << >>
    /\ stdout = << >>
    /\ stderr = << >>
    /\ exit = Nil

SpecValidate == InitValidate /\ [][NextValidate]_vars

-----------------------------------------------------------------------------
(* What the input file says, read off its text.                            *)

\* Generate has read the input of this run
Scanned == pc # "idle" /\ input.parses

\* the declaration is  var <name> = validate.Struct[<T>]()...  at package level
IsTypedSchemaDecl(d) ==
    /\ d.form = "var"
    /\ d.place = "top"
    /\ Len(d.values) = 1
    /\ d.values[1].head.h = "generic"
    /\ d.values[1].head.pkg = s_validate
    /\ d.values[1].head.fn = s_Struct

\* the call is a Field call of two arguments
IsBinaryField(c) == c.c = "field" /\ c.Sel = s_Field /\ c.nargs = 2

\* the call is a Field call written with a selector and a validator
IsWellFormedField(c) == IsBinaryField(c) /\ c.body = "return"

\* the file is one schema declaration whose calls are all well-formed
OneWellFormedSchema ==
    /\ Len(input.decls) = 1
    /\ IsTypedSchemaDecl(input.decls[1])
    /\ \A i \in 1..Len(input.decls[1].values[1].calls) :
          IsWellFormedField(input.decls[1].values[1].calls[i])

TheCalls == input.decls[1].values[1].calls

\* the field names of the well-formed Field calls of a chain, as written
RECURSIVE WrittenFieldNames(_)
WrittenFieldNames(calls) ==
    IF Len(calls) = 0 THEN << >>
    ELSE (IF IsWellFormedField(Head(calls)) THEN << Head(calls).F >> ELSE << >>)
             \o WrittenFieldNames(Tail(calls))

NamesOf(fields) == [i \in 1..Len(fields) |-> fields[i].Name]
MethodsOf(validators) == [i \in 1..Len(validators) |-> validators[i].Method]

-----------------------------------------------------------------------------
(* The claims.                                                             *)

\* C1: for a chain validate.Struct[T]().Field(f1, ...)...Field(fn, ...) whose
\* Field calls are all well-formed, the extracted schema's field names are
\* exactly f1, ..., fn, in the order written.
C1_FieldOrder ==
    (Scanned /\ OneWellFormedSchema) =>
        /\ Len(schemas) = 1
        /\ Len(schemas[1].Fields) = Len(TheCalls)
        /\ \A i \in 1..Len(TheCalls) : schemas[1].Fields[i].Name = TheCalls[i].F

\* three fields written Age, Username, Email are extracted in that order
C1_Witness ==
    /\ Scanned /\ OneWellFormedSchema
    /\ TheCalls = << FieldAge, FieldUsername, FieldEmail >>
    /\ NamesOf(schemas[1].Fields) = << s_Age, s_Username, s_Email >>

\* C2: for a validator chain validate.C().M1(...)...Mk(...) given to a Field
\* call, the extracted calls of that field end with M1, ..., Mk in the order
\* written, each under its own method name; at most the constructor precedes.
C2_ValidatorOrder ==
    (Scanned /\ OneWellFormedSchema) =>
        \A i \in 1..Len(TheCalls) :
            LET written == TheCalls[i].steps
                got == schemas[1].Fields[i].Validators
                lead == Len(got) - Len(written)
            IN  /\ lead \in {0, 1}
                /\ \A j \in 1..Len(written) : got[lead + j].Method = written[j].Sel
                /\ lead = 1 => got[1].Method = TheCalls[i].ctor

\* validate.String().Min(-5).After(limit) is extracted as Min, After
C2_Witness ==
    /\ Scanned /\ OneWellFormedSchema
    /\ Len(TheCalls) = 1
    /\ TheCalls[1].ctor = s_String
    /\ TheCalls[1].steps = << Step(s_Min, << t_neg5 >>), Step(s_After, << s_limit >>) >>
    /\ MethodsOf(schemas[1].Fields[1].Validators) = << s_Min, s_After >>

\* C3: a declaration whose root call is validate.Struct[T]() gives a schema
\* whose TypeName is T, whatever the variable is called and whatever its doc
\* comment says.
C3_TypeParameterWins ==
    (Scanned /\ \A i \in 1..Len(input.decls) : IsTypedSchemaDecl(input.decls[i])) =>
        /\ Len(schemas) = Len(input.decls)
        /\ \A i \in 1..Len(input.decls) :
              schemas[i].TypeName = input.decls[i].values[1].head.targ

\* AccountSchema, documented as "validation schema for Order", built from
\* validate.Struct[User](): the type name is User
C3_Witness ==
    /\ Scanned
    /\ Len(input.decls) = 1
    /\ IsTypedSchemaDecl(input.decls[1])
    /\ input.decls[1].doc = << DocForOrder >>
    /\ input.decls[1].names = << s_Account \o s_Schema >>
    /\ Len(schemas) = 1
    /\ schemas[1].TypeName = s_User

\* the declaration is  var <name> = validate.Struct()...  at package level:
\* the root call has no type parameter
IsUntypedSchemaDecl(d) ==
    /\ d.form = "var"
    /\ d.place = "top"
    /\ Len(d.values) = 1
    /\ d.values[1].head = [h |-> "plain", pkg |-> s_validate, fn |-> s_Struct]

\* C4: a declaration whose root call has no type parameter is still a schema;
\* its TypeName is the name in a doc comment "validation schema for Order",
\* else the variable's name without a trailing "Schema" (AccountSchema gives
\* Account), else the variable's name (Ticket).
C4_UntypedRootResolved ==
    (/\ Scanned
     /\ Len(input.decls) = 1
     /\ IsUntypedSchemaDecl(input.decls[1])
     /\ input.decls[1].names[1] \in { s_Account \o s_Schema, s_Ticket }) =>
        /\ Len(schemas) = 1
        /\ schemas[1].TypeName =
              IF input.decls[1].doc = << DocForOrder >> THEN s_Order
              ELSE IF input.decls[1].names[1] = s_Account \o s_Schema THEN s_Account
              ELSE s_Ticket

\* the declaration is a var declaration built from validate.Struct[T]()
IsTypedVarDecl(d) ==
    /\ d.form = "var"
    /\ d.values[1].head.h = "generic"
    /\ d.values[1].head.pkg = s_validate
    /\ d.values[1].head.fn = s_Struct

\* C5: when the input does not parse, or parses and holds no schema, Generate
\* returns an error and has made no file-system call: the output directory and
\* every file are as they were when the run began.
C5_NoWriteBeforeEmission ==
    /\ (/\ pc # "idle"
        /\ \/ ~input.parses
           \/ \A i \in 1..Len(input.decls) : ~IsTypedVarDecl(input.decls[i])) =>
          /\ pc = "failed"
          /\ err # Nil
          /\ fs = start
          /\ writes = << >>
    /\ (pc = "failed" /\ err.msg # "generating validator for") =>
          /\ fs = start
          /\ writes = << >>

\* a file of two declarations, neither a schema: Generate has failed and the
\* output directory is still absent
C5_Witness ==
    /\ pc = "failed"
    /\ err.msg = "no validation schemas found"
    /\ Len(input.decls) = 2
    /\ config.OutputDir \notin fs.dirs
    /\ fs.files = << >>

\* C6: in a chain of Field calls of which some are written with three
\* arguments, those calls give no field and no error, and the well-formed
\* Field calls before and after them are all extracted, in the order written.
C6_MalformedFieldSkipped ==
    (/\ Scanned
     /\ Len(input.decls) = 1
     /\ IsTypedSchemaDecl(input.decls[1])
     /\ \A i \in 1..Len(TheCalls) : TheCalls[i].c = "field" /\ TheCalls[i].Sel = s_Field
     /\ \E i \in 1..Len(TheCalls) : TheCalls[i].nargs = 3) =>
        /\ pc # "failed" \/ err.msg = "generating validator for"
        /\ Len(schemas) = 1
        /\ NamesOf(schemas[1].Fields) = WrittenFieldNames(TheCalls)

\* Username, a three-argument Phone, Age: Username and Age are extracted
C6_Witness ==
    /\ Scanned
    /\ Len(input.decls) = 1
    /\ IsTypedSchemaDecl(input.decls[1])
    /\ TheCalls = << FieldUsername, FieldPhone3, FieldAge >>
    /\ Len(schemas) = 1
    /\ NamesOf(schemas[1].Fields) = << s_Username, s_Age >>

\* <OutputDir>/<lowercase(TypeName)>_validator.go, for the j-th schema
ExpectedPath(j) ==
    config.OutputDir \o << "/" >> \o ToLower(schemas[j].TypeName) \o s_validatorGo

\* "gen/invoice_validator.go"
GenInvoicePath ==
    << "g","e","n","/","i","n","v","o","i","c","e","_",
       "v","a","l","i","d","a","t","o","r",".","g","o" >>

\* C7: once generateValidator has returned for a schema with TypeName T, the
\* output directory D exists, the file D/<lowercase(T)>_validator.go holds the
\* generated source whatever it held before, and the run has touched no other
\* path than D and the output paths of its schemas.
C7_OutputLocation ==
    (pc \in {"emit", "done"} /\ next > 1) =>
        LET k == next - 1
            own == { ExpectedPath(j) : j \in 1..k }
        IN  /\ config.OutputDir \in fs.dirs
            /\ ExpectedPath(k) \in DOMAIN fs.files
            /\ fs.files[ExpectedPath(k)] = Render(config.Package, schemas[k])
            /\ DOMAIN fs.files = DOMAIN start.files \cup own
            /\ \A q \in DOMAIN start.files \ own : fs.files[q] = start.files[q]
            /\ \A i \in 1..Len(writes) :
                  writes[i].path \in { config.OutputDir, ExpectedPath(writes[i].schema) }
            /\ (schemas[k].TypeName = s_Invoice /\ config.OutputDir = s_gen) =>
                  ExpectedPath(k) = GenInvoicePath

\* TypeName Invoice, directory gen, which held an invoice_validator.go already:
\* that file is replaced and no file is added
C7_Witness ==
    /\ pc = "done"
    /\ run = 1
    /\ Len(schemas) = 1
    /\ schemas[1].TypeName = s_Invoice
    /\ config.OutputDir = s_gen
    /\ GenInvoicePath \in DOMAIN start.files
    /\ start.files[GenInvoicePath] = StaleText
    /\ fs.files[GenInvoicePath] = Render(config.Package, schemas[1])
    /\ DOMAIN fs.files = DOMAIN start.files

\* C8: after a run that recognized K schemas and succeeded, the output
\* directory holds K distinct generated files, each holding its own schema's
\* source.
C8_OneFilePerSchema ==
    pc = "done" =>
        /\ Cardinality({ ExpectedPath(j) : j \in 1..Len(schemas) }) = Len(schemas)
        /\ \A j \in 1..Len(schemas) :
              /\ ExpectedPath(j) \in DOMAIN fs.files
              /\ fs.files[ExpectedPath(j)] = Render(config.Package, schemas[j])

\* the last schema before the k-th that was written to the j-th schema's path
LastWriterBefore(j, k) ==
    CHOOSE m \in 1..(k - 1) :
        /\ ExpectedPath(m) = ExpectedPath(j)
        /\ \A m2 \in (m + 1)..(k - 1) : ExpectedPath(m2) # ExpectedPath(j)

\* what the files of the schemas before the k-th held when its emission began
EarlierFilesInPlace(k) ==
    \A j \in 1..(k - 1) :
        /\ ExpectedPath(j) \in DOMAIN fs.files
        /\ fs.files[ExpectedPath(j)] =
              Render(config.Package, schemas[LastWriterBefore(j, k)])

\* C9: when the emission of the k-th schema fails, Generate returns an error
\* naming that schema, no file-system call is made for a later schema, and the
\* files written for the schemas before it are left as they were.
C9_FailFastNoRollback ==
    (pc = "failed" /\ err.msg = "generating validator for") =>
        /\ err.TypeName = schemas[next].TypeName
        /\ \A i \in 1..Len(writes) : writes[i].schema <= next
        /\ EarlierFilesInPlace(next)

\* the same, for a failing schema whose output path no earlier schema shares
C9_FailFastOnOwnPath ==
    (/\ pc = "failed"
     /\ err.msg = "generating validator for"
     /\ \A j \in 1..(next - 1) : ExpectedPath(j) # ExpectedPath(next)) =>
        /\ err.TypeName = schemas[next].TypeName
        /\ \A i \in 1..Len(writes) : writes[i].schema <= next
        /\ EarlierFilesInPlace(next)

\* C10: a second run of Generate with the same Config, on the input and the
\* output directory as the first run left them, leaves every file as it was.
C10_Idempotent == (run > 1 /\ pc = "done") => fs = start

\* a second run over two schemas has ended and the directory holds its files
C10_Witness ==
    /\ run = 2
    /\ pc = "done"
    /\ Len(schemas) = 2
    /\ ExpectedPath(1) # ExpectedPath(2)
    /\ fs.files[ExpectedPath(2)] = Render(config.Package, schemas[2])
    /\ fs = start

-----------------------------------------------------------------------------
(* The emitted file read back.                                             *)

\* the declarations of an emitted file, as source text: the header, the
\* package clause and the import hold none, and the Validate<T> function
\* holds no declaration in its body
SourceOf(text) ==
    LET decls == SelectSeq(text, LAMBDA piece : piece.c = "var")
    IN  [parses |-> TRUE, decls |-> [i \in 1..Len(decls) |-> decls[i].decl]]

\* the schemas the extractor finds in the file written for the j-th schema
ReadBack(j) == findValidationSchemas(ParseFile(SourceOf(fs.files[ExpectedPath(j)])))

\* the field types for which the emitted constructor call is skipped again,
\* or is no selector call, when the file is read back
ReadsBackAlike(type) == type \in { s_string, s_int, s_interface }

\* C11: running the extractor on the file generateValidator wrote for an
\* extracted schema gives that schema again: the same TypeName, the same
\* fields in the same order, each with its Name, its Type and its validator
\* methods and argument tokens, for every field type.
C11_RoundTrip ==
    (pc \in {"emit", "done"} /\ next > 1) => ReadBack(next - 1) = << schemas[next - 1] >>

\* the same, for the schemas whose field types are string, int or interface{}
C11_RoundTripOfBasicTypes ==
    (/\ pc \in {"emit", "done"} /\ next > 1
     /\ \A i \in 1..Len(schemas[next - 1].Fields) :
           ReadsBackAlike(schemas[next - 1].Fields[i].Type)) =>
        ReadBack(next - 1) = << schemas[next - 1] >>

\* Username (string), Created (time.Time, extracted as interface{}) and Age
\* (int) are written and read back as they were extracted
C11_BasicTypesWitness ==
    /\ pc = "done"
    /\ Len(input.decls) = 1
    /\ TheCalls = << FieldUsername, FieldCreated, FieldAge >>
    /\ Len(schemas[1].Fields[1].Validators) = MaxValidators
    /\ schemas[1].Fields[2].Type = s_interface
    /\ ReadBack(1) = << schemas[1] >>

\* the declaration's type name would resolve to the empty string: no type
\* parameter, no doc comment naming a type, and the variable is called Schema
ResolvesToEmpty(d) ==
    /\ IsUntypedSchemaDecl(d)
    /\ d.names[1] = s_Schema
    /\ d.doc # << DocForOrder >>

\* C12: every schema findValidationSchemas returns, and so every schema
\* handed to generateValidator, has a non-empty TypeName; a declaration whose
\* type name would resolve to the empty string gives no schema and no file.
C12_TypeNameNonEmpty ==
    /\ \A i \in 1..Len(schemas) : schemas[i].TypeName # << >>
    /\ \A i \in 1..Len(writes) : writes[i].path # Join(config.OutputDir, s_validatorGo)
    /\ (Scanned /\ \A i \in 1..Len(input.decls) : ResolvesToEmpty(input.decls[i])) =>
          /\ schemas = << >>
          /\ fs = start

\* var Schema = validate.Struct().Field(...), without a doc comment: no
\* schema, no file
C12_Witness ==
    /\ Scanned
    /\ Len(input.decls) = 1
    /\ ResolvesToEmpty(input.decls[1])
    /\ input.decls[1].doc = << >>
    /\ TheCalls = << FieldAge >>
    /\ schemas = << >>
    /\ pc = "failed"
    /\ fs = start

\* whether the command line holds the flag
HasFlag(name) == \E i \in 1..Len(osArgs) : osArgs[i] = name

\* the command line is gen and its flags
IsGen == osArgs # << >> /\ osArgs[1] = s_gen

\* C13: a command line without a subcommand, and a gen command line without
\* -file, end the process with a non-zero exit status and a usage or error
\* message on the error stream, and Generate is not called.
C13_UsageOnErrorStream ==
    (pc = "exited" /\ (osArgs = << >> \/ (IsGen /\ ~HasFlag(s_dashFile)))) =>
        /\ exit.code # 0
        /\ stderr # << >>
        /\ config = Nil
        /\ writes = << >>
        /\ fs = start

\* the same, for the gen command lines without -file only
C13_MissingFileOnErrorStream ==
    (pc = "exited" /\ IsGen /\ ~HasFlag(s_dashFile)) =>
        /\ exit.code # 0
        /\ stderr # << >>
        /\ config = Nil
        /\ writes = << >>
        /\ fs = start

\* gen -out gen: exit status 1, the message and the usage on the error stream
C13_MissingFileWitness ==
    /\ pc = "exited"
    /\ osArgs = << s_gen, s_dashOut, s_gen >>
    /\ exit = [code |-> 1]
    /\ stderr = << "Error: input file is required", "usage" >>
    /\ stdout = << >>

\* C14: without -out the target directory is the directory of the input
\* file; without -pkg the package name is the base name of the target
\* directory, whether or not -out names the input file's directory.
C14_Defaults ==
    (pc # "main" /\ config # Nil) =>
        /\ ~HasFlag(s_dashOut) => config.OutputDir = Dir(config.InputFile)
        /\ ~HasFlag(s_dashPkg) => config.Package = Base(config.OutputDir)

\* the same, for the command lines without -out, and for those whose -out
\* ends in the name of the input file's directory
C14_DefaultsOfInputDirectory ==
    (/\ pc # "main" /\ config # Nil
     /\ ~HasFlag(s_dashOut) \/ Base(config.OutputDir) = Base(Dir(config.InputFile))) =>
        /\ ~HasFlag(s_dashOut) => config.OutputDir = Dir(config.InputFile)
        /\ ~HasFlag(s_dashPkg) => config.Package = Base(config.OutputDir)

\* gen -file models/user.go: directory models, package models
C14_InputDirectoryWitness ==
    /\ pc = "exited"
    /\ osArgs = << s_gen, s_dashFile, s_modelsUserGo >>
    /\ config.OutputDir = s_models
    /\ config.Package = s_models
    /\ exit = [code |-> 0]

\* Schema.Validate has returned, on the schema as it is
SchemaReturned == IsSchema /\ result # Nil /\ ~IsPanic(result.out)

\* what the validator of a Field call says about the field its selector
\* projects from the value
Verdict(call, value) == Validate(call.rule, value[call.selector.field])

\* the Field calls whose rule fails on the value, in the order of the calls
RECURSIVE FailingCalls(_, _)
FailingCalls(fieldCalls, value) ==
    IF fieldCalls = << >> THEN << >>
    ELSE (IF Verdict(Head(fieldCalls), value) # Nil THEN << Head(fieldCalls) >> ELSE << >>)
             \o FailingCalls(Tail(fieldCalls), value)

\* C15: every error Schema.Validate reports for a failing rule carries, as its
\* Field, the name of the struct field that the rule's selector projects, also
\* when several fields of the struct have the same type.
C15_FieldOfSelector ==
    SchemaReturned =>
        LET failing == FailingCalls(built, result.value) IN
        /\ Len(Get(result.out)) = Len(failing)
        /\ \A i \in 1..Len(failing) :
              Get(result.out)[i].Field = failing[i].selector.field

\* the same, for the rules on Username and Age, each the first field of its
\* type in User
C15_FieldOfFirstOfItsType ==
    (SchemaReturned /\ \A i \in 1..Len(built) : built[i].selector.field # "Email") =>
        LET failing == FailingCalls(built, result.value) IN
        /\ Len(Get(result.out)) = Len(failing)
        /\ \A i \in 1..Len(failing) :
              Get(result.out)[i].Field = failing[i].selector.field

\* failing rules on Age and Username are reported as Age and Username
C15_FirstOfItsTypeWitness ==
    /\ SchemaReturned
    /\ result.value.Age = 10 /\ result.value.Username = t_jo
    /\ Len(built) = 2
    /\ built[1].selector.field = "Age" /\ built[2].selector.field = "Username"
    /\ Len(Get(result.out)) = 2
    /\ Get(result.out)[1].Field = "Age"
    /\ Get(result.out)[2].Field = "Username"

\* whether the validator holds a OneOf of no validators
RECURSIVE HasEmptyOneOf(_)
HasEmptyOneOf(v) ==
    IF v.type = "NotValidator" THEN HasEmptyOneOf(v.validator)
    ELSE IF v.type \in { "OneOfValidator", "AllOfValidator" }
         THEN \/ v.type = "OneOfValidator" /\ v.validators = << >>
              \/ \E i \in 1..Len(v.validators) : HasEmptyOneOf(v.validators[i])
    ELSE FALSE

\* C16: Validate of a validator built from OneOf, AllOf and Not, applied to
\* any number of validators, returns nil or an *Error for every value: it
\* never panics.
C16_NeverPanics ==
    (IsCombinator /\ result # Nil) =>
        /\ ~IsPanic(result.out)
        /\ result.out = Nil \/ "Code" \in DOMAIN result.out

\* the same, for the validators that hold no OneOf of no validators
C16_NeverPanicsWithOperands ==
    (IsCombinator /\ result # Nil /\ ~HasEmptyOneOf(validator)) =>
        /\ ~IsPanic(result.out)
        /\ result.out = Nil \/ "Code" \in DOMAIN result.out

\* Not of a OneOf of two validators that both fail returns nil; AllOf of none
\* returns nil
C16_OperandsWitness ==
    /\ IsCombinator /\ result # Nil
    /\ validator = Not(OneOf(<< Max(Min(IntValidator, 13), 19), Min(IntValidator, 65) >>))
    /\ result.value = 20
    /\ result.out = Nil

IsBlank(text) == \A i \in 1..Len(text) : text[i] = " "

\* the rules of a StringValidator in the order they are checked, for the
\* value x: whether the rule decides, and the code it returns ("" for nil)
RulesInOrder(v, x) ==
    << [decides |-> v.required /\ IsBlank(x), code |-> "required"],
       [decides |-> v.optional /\ IsBlank(x), code |-> ""],
       [decides |-> v.minLen # NilPtr /\ Len(x) < v.minLen[1], code |-> "too_short"],
       [decides |-> v.maxLen # NilPtr /\ Len(x) > v.maxLen[1], code |-> "too_long"],
       [decides |-> v.pattern # NilPtr /\ ~MatchString(v.pattern[1], x),
        code |-> "invalid_format"],
       [decides |-> v.email /\ ~(\E i \in 1..Len(x) : x[i] = "@"
                                  /\ \E j \in 1..Len(x) : x[j] = "."),
        code |-> "invalid_email"],
       [decides |-> v.custom # NilPtr /\ CallCustom(v.custom[1], x) # Nil,
        code |-> IF v.custom # NilPtr /\ CallCustom(v.custom[1], x) # Nil
                 THEN CallCustom(v.custom[1], x).Code ELSE ""] >>

\* the code of the first rule that decides, "" when none does
FirstCode(rules) ==
    IF \E i \in 1..Len(rules) : rules[i].decides
    THEN rules[CHOOSE i \in 1..Len(rules) :
                  rules[i].decides /\ \A j \in 1..(i - 1) : ~rules[j].decides].code
    ELSE ""

\* the code of what Validate returned, "" for nil
CodeOf(out) == IF out = Nil THEN "" ELSE out.Code

RECURSIVE LastBound(_, _)
LastBound(madeCalls, method) ==
    IF madeCalls = << >> THEN NilPtr
    ELSE IF madeCalls[Len(madeCalls)].method = method
         THEN Ptr(madeCalls[Len(madeCalls)].value)
    ELSE LastBound(SubSeq(madeCalls, 1, Len(madeCalls) - 1), method)

\* C19: IntValidator.Validate(v) returns nil exactly when v is at least the
\* minimum, at most the maximum, above 0 if Positive and below 0 if Negative,
\* each rule counting only if set; otherwise it returns the first violated of
\* too_small, too_large, not_positive, not_negative. The minimum and the
\* maximum are those of the last Min and the last Max call.
C19_IntSemantics ==
    (IsInt /\ result # Nil) =>
        LET v == result.value
            lo == LastBound(built, "Min")
            hi == LastBound(built, "Max")
            okMin == lo = NilPtr \/ v >= lo[1]
            okMax == hi = NilPtr \/ v <= hi[1]
            okPositive == ~validator.positive \/ v > 0
            okNegative == ~validator.negative \/ v < 0
        IN  /\ (result.out = Nil) <=> (okMin /\ okMax /\ okPositive /\ okNegative)
            /\ CodeOf(result.out) =
                  IF ~okMin THEN "too_small"
                  ELSE IF ~okMax THEN "too_large"
                  ELSE IF ~okPositive THEN "not_positive"
                  ELSE IF ~okNegative THEN "not_negative"
                  ELSE ""

\* Min(13), then Max(19), then Min(0): 12 is accepted and 20 is too large
C19_Witness ==
    /\ IsInt /\ result # Nil
    /\ built = << [method |-> "Min", value |-> 13], [method |-> "Max", value |-> 19],
                  [method |-> "Min", value |-> 0] >>
    /\ \/ result.value = 12 /\ result.out = Nil
       \/ result.value = 20 /\ CodeOf(result.out) = "too_large"

\* the number of declarations of the file that are package-level var
\* declarations built from validate.Struct[T]()
RECURSIVE CountTopLevelSchemas(_)
CountTopLevelSchemas(decls) ==
    IF decls = << >> THEN 0
    ELSE (IF IsTypedSchemaDecl(Head(decls)) THEN 1 ELSE 0)
             + CountTopLevelSchemas(Tail(decls))

\* C20: findValidationSchemas returns a schema for the package-level var
\* declarations whose initializer is a chain, and for no other declaration:
\* not for a var declaration in a function body, a const declaration or a
\* short variable declaration.
C20_OnlyTopLevelScanned ==
    Scanned => Len(schemas) = CountTopLevelSchemas(input.decls)

\* the same, for const declarations and short variable declarations only
C20_ConstAndDefineNotScanned ==
    (Scanned /\ \A i \in 1..Len(input.decls) : input.decls[i].form # "var") =>
        schemas = << >>

\* a short variable declaration and a const declaration of a chain give none
C20_NotScannedWitness ==
    /\ Scanned
    /\ Len(input.decls) = 1
    /\ input.decls[1].form \in {"define", "const"}
    /\ input.decls[1].values[1].head = StructOf(s_User)
    /\ TheCalls = << FieldAge >>
    /\ schemas = << >>
-----------------------------------------------------------------------------
(* The shapes the extractor takes and leaves.                              *)

\* the file is one var declaration at package level with one value
OneVarDecl ==
    /\ Len(input.decls) = 1
    /\ input.decls[1].form = "var"
    /\ input.decls[1].place = "top"
    /\ Len(input.decls[1].values) = 1

TheHead == input.decls[1].values[1].head

\* the head is a call without arguments of a name pkg.fn given one type
\* argument
IsBuilderCall(head) ==
    \/ head.h = "generic" /\ head.args = << >>
    \/ head.h = "qualified"

\* the type argument of the head, as written
TypeArgOf(head) ==
    IF head.h = "qualified" THEN head.tpkg \o << "." >> \o head.targ ELSE head.targ

\* C21: extractValidationSchema returns a schema exactly when the innermost
\* call of the chain is a call without arguments of a two-part qualified name
\* given exactly one type argument; the TypeName is that type argument; every
\* other expression gives no schema.
C21_RootGrammar ==
    (Scanned /\ OneVarDecl) =>
        /\ Len(schemas) = (IF IsBuilderCall(TheHead) THEN 1 ELSE 0)
        /\ IsBuilderCall(TheHead) => schemas[1].TypeName = TypeArgOf(TheHead)

\* what the code takes for a root: validate.Struct[T] called, T a plain name,
\* with or without arguments; the TypeName is T
C21_StructRootOnly ==
    (Scanned /\ OneVarDecl) =>
        LET isStruct == /\ TheHead.h = "generic"
                        /\ TheHead.pkg = s_validate
                        /\ TheHead.fn = s_Struct
        IN  /\ Len(schemas) = (IF isStruct THEN 1 ELSE 0)
            /\ isStruct => schemas[1].TypeName = TheHead.targ

\* validate.Struct[User](limit).Field(...) is taken for a schema of User, and
\* other.Struct[User]() gives none
C21_StructRootWitness ==
    /\ Scanned /\ OneVarDecl
    /\ \/ /\ TheHead = [StructOf(s_User) EXCEPT !.args = << s_limit >>]
          /\ TheCalls = << FieldAge >>
          /\ Len(schemas) = 1
          /\ schemas[1].TypeName = s_User
          /\ NamesOf(schemas[1].Fields) = << s_Age >>
       \/ /\ TheHead.h = "generic" /\ TheHead.pkg = s_other
          /\ schemas = << >>

\* the file is one schema declaration, whatever its calls
OneSchemaDecl == Len(input.decls) = 1 /\ IsTypedSchemaDecl(input.decls[1])

\* the calls at the end of the chain that are all named Field: those the
\* walk from the outermost call meets before a call of another name
RECURSIVE TrailingFieldCalls(_)
TrailingFieldCalls(calls) ==
    IF Len(calls) = 0 THEN << >>
    ELSE IF calls[Len(calls)].Sel # s_Field THEN << >>
    ELSE Append(TrailingFieldCalls(SubSeq(calls, 1, Len(calls) - 1)), calls[Len(calls)])

\* C22: the fields are collected from the outermost call inward while the
\* call's method is Field; at the first call of another method the collection
\* stops: Field calls written before that call are not collected, the fields
\* collected so far are returned.
C22_StopsAtOtherCall ==
    (Scanned /\ OneSchemaDecl) =>
        /\ Len(schemas) = 1
        /\ NamesOf(schemas[1].Fields) = WrittenFieldNames(TrailingFieldCalls(TheCalls))

\* what the loop does: a call of another method is stepped over, and every
\* well-formed Field call of the chain is collected, before it and after it
C22_OtherCallSteppedOver ==
    (/\ Scanned /\ OneSchemaDecl
     /\ \E i \in 1..Len(TheCalls) : TheCalls[i].Sel # s_Field) =>
        /\ Len(schemas) = 1
        /\ NamesOf(schemas[1].Fields) = WrittenFieldNames(TheCalls)

\* Age, then Describe("n"), then Email: both Age and Email are collected
C22_SteppedOverWitness ==
    /\ Scanned /\ OneSchemaDecl
    /\ TheCalls = << FieldAge, CallDescribe, FieldEmail >>
    /\ NamesOf(schemas[1].Fields) = << s_Age, s_Email >>

\* the call is a Field call of two arguments whose first argument is a
\* function literal of the single statement  return <parameter>.<field>
IsProjectionOfParameter(c) ==
    /\ IsBinaryField(c)
    /\ c.body = "return"
    /\ c.x = c.p

\* the field names of the calls of a chain that satisfy the test, as written
RECURSIVE FieldNamesWhere(_, _)
FieldNamesWhere(Test(_), calls) ==
    IF Len(calls) = 0 THEN << >>
    ELSE (IF Test(Head(calls)) THEN << Head(calls).F >> ELSE << >>)
             \o FieldNamesWhere(Test, Tail(calls))

\* C23: a Field call gives a ValidationField only if its first argument is a
\* function literal whose body is exactly one statement, a return that
\* projects a field of the literal's own parameter; with every other first
\* argument the field is dropped and no error is raised.
C23_SelectorShape ==
    (/\ Scanned /\ OneSchemaDecl
     /\ \A i \in 1..Len(TheCalls) : TheCalls[i].Sel = s_Field) =>
        /\ Len(schemas) = 1
        /\ NamesOf(schemas[1].Fields) = FieldNamesWhere(IsProjectionOfParameter, TheCalls)

\* what extractFieldValidation tests: a function literal whose first
\* statement is a return whose first result is a selection, of anything
IsReturnOfSelection(c) ==
    /\ IsBinaryField(c)
    /\ c.body \in { "return", "returnThenMore" }

\* the fields extracted are those of the calls that pass the code's test; the
\* other calls are dropped and the run goes on to emission
C23_FirstStatementOnly ==
    (/\ Scanned /\ OneSchemaDecl
     /\ \A i \in 1..Len(TheCalls) : TheCalls[i].Sel = s_Field) =>
        /\ Len(schemas) = 1
        /\ NamesOf(schemas[1].Fields) = FieldNamesWhere(IsReturnOfSelection, TheCalls)
        /\ pc # "failed" \/ err.msg = "generating validator for"

\* a Field call whose selector is { n := u.Email; return n }, before a Field
\* call on Age: the first is dropped, Age is extracted
C23_DroppedWitness ==
    /\ Scanned /\ OneSchemaDecl
    /\ TheCalls = << [FieldEmail EXCEPT !.body = "assignFirst"], FieldAge >>
    /\ NamesOf(schemas[1].Fields) = << s_Age >>

-----------------------------------------------------------------------------
(* The arguments of the validator calls.                                   *)

\* the argument token is a numeric or string literal, or a bare name
IsLiteralOrName(tok) ==
    \/ tok[1] \in Digits
    \/ tok[1] = "\""
    \/ tok[1] # "-" /\ \A i \in 1..Len(tok) : tok[i] # "."

\* the validator calls extracted for the i-th call of the chain that stand
\* for the steps written after the constructor
ExtractedSteps(i) ==
    LET got == schemas[1].Fields[i].Validators
        lead == Len(got) - Len(TheCalls[i].steps)
    IN  SubSeq(got, lead + 1, Len(got))

\* C24: in every validator call extracted from a chain, Args lists the
\* call's arguments in source order, a numeric or string literal as its
\* source token with its quotes and a bare identifier as its name; nothing is
\* evaluated, rewritten or reordered.
C24_ArgsVerbatim ==
    (Scanned /\ OneWellFormedSchema) =>
        \A i \in 1..Len(TheCalls) :
            /\ Len(ExtractedSteps(i)) = Len(TheCalls[i].steps)
            /\ \A j \in 1..Len(TheCalls[i].steps) :
                  LET written == TheCalls[i].steps[j].Args IN
                  (\A a \in 1..Len(written) : IsLiteralOrName(written[a])) =>
                      ExtractedSteps(i)[j].Args = written

\* validate.String().In("n", limit).MaxLen(30): the arguments are "n" with
\* its quotes and limit, then 30
C24_Witness ==
    /\ Scanned /\ OneWellFormedSchema
    /\ Len(TheCalls) = 1
    /\ TheCalls[1].steps = << Step(s_In, << t_note, s_limit >>), Step(s_MaxLen, << t_30 >>) >>
    /\ schemas[1].Fields[1].Validators =
          << [Method |-> s_In, Args |-> << t_note, s_limit >>],
             [Method |-> s_MaxLen, Args |-> << t_30 >>] >>

\* C25: an argument that is neither a literal nor a bare identifier is left
\* out of Args, while the call and its other arguments are kept: the
\* extracted call can have fewer arguments than the call written, the later
\* arguments move up, and no error is raised.
C25_UnsupportedArgsDropped ==
    (Scanned /\ OneWellFormedSchema) =>
        /\ pc # "failed" \/ err.msg = "generating validator for"
        /\ \A i \in 1..Len(TheCalls) :
              /\ Len(ExtractedSteps(i)) = Len(TheCalls[i].steps)
              /\ \A j \in 1..Len(TheCalls[i].steps) :
                    /\ ExtractedSteps(i)[j].Method = TheCalls[i].steps[j].Sel
                    /\ ExtractedSteps(i)[j].Args =
                          SelectSeq(TheCalls[i].steps[j].Args, IsLiteralOrName)

\* validate.Int().Between(-5, 30).After(time.Time): Between is left with the
\* one argument 30, After with none
C25_Witness ==
    /\ Scanned /\ OneWellFormedSchema
    /\ Len(TheCalls) = 1
    /\ TheCalls[1].ctor = s_Int
    /\ TheCalls[1].steps =
          << Step(s_Between, << t_neg5, t_30 >>), Step(s_After, << s_timeTime >>) >>
    /\ schemas[1].Fields[1].Validators =
          << [Method |-> s_Between, Args |-> << t_30 >>],
             [Method |-> s_After, Args |-> << >>] >>

\* the constructors of the validator library that take no argument
LibraryConstructors == { s_String, s_Int, s_Time, s_JSON }

\* C26: the leading type-constructor call without arguments on the validate
\* package is skipped: for every chain validate.C().M1(...)...Mk(...) the
\* extracted Validators are exactly M1, ..., Mk and C is no entry, for each of
\* the constructors String, Int, Time and JSON.
C26_ConstructorElided ==
    (Scanned /\ OneWellFormedSchema) =>
        \A i \in 1..Len(TheCalls) :
            (TheCalls[i].ctor \in LibraryConstructors /\ TheCalls[i].cargs = << >>) =>
                MethodsOf(schemas[1].Fields[i].Validators) =
                    [j \in 1..Len(TheCalls[i].steps) |-> TheCalls[i].steps[j].Sel]

\* the same, for the two constructors the code names: String and Int
C26_StringAndIntElided ==
    (Scanned /\ OneWellFormedSchema) =>
        \A i \in 1..Len(TheCalls) :
            (TheCalls[i].ctor \in { s_String, s_Int }) =>
                MethodsOf(schemas[1].Fields[i].Validators) =
                    [j \in 1..Len(TheCalls[i].steps) |-> TheCalls[i].steps[j].Sel]

\* validate.Int().MinLen(3).String(): Int is skipped and the String call that
\* is not the constructor is kept
C26_StringAndIntWitness ==
    /\ Scanned /\ OneWellFormedSchema
    /\ Len(TheCalls) = 1
    /\ TheCalls[1].ctor = s_Int
    /\ TheCalls[1].steps = << Step(s_MinLen, << t_3 >>), Step(s_String, << >>) >>
    /\ MethodsOf(schemas[1].Fields[1].Validators) = << s_MinLen, s_String >>

-----------------------------------------------------------------------------
(* The two generators.                                                     *)

\* the initializer expressions of the file
Initializers ==
    { ParseValue(input.decls[i].values[1]) : i \in 1..Len(input.decls) }

\* the Name and the Type of each field
NameTypePairs(fields) ==
    [i \in 1..Len(fields) |-> [Name |-> fields[i].Name, Type |-> fields[i].Type]]

\* C27: on every initializer expression, the extractValidationSchema of the
\* generator that emits a Validate method recognizes a schema exactly when
\* that of the generator that emits a Validate<T> function does, and the two
\* give the same TypeName and the same sequence of field Name and Type.
C27_VariantsAgree ==
    Scanned =>
        \A e \in Initializers :
            LET free == extractValidationSchema(e)
                bound == extractValidationSchemaOfNames(e)
            IN  /\ (free = Nil) <=> (bound = Nil)
                /\ free # Nil =>
                      /\ free.TypeName = bound.TypeName
                      /\ NameTypePairs(free.Fields) = NameTypePairs(bound.Fields)

\* what the two root tests give: no expression is a schema for both; the
\* second generator takes a chain on validate.Struct[T] that is not called
C27_VariantsDisjoint ==
    (Scanned /\ OneVarDecl) =>
        LET e == ParseValue(input.decls[1].values[1])
            free == extractValidationSchema(e)
            bound == extractValidationSchemaOfNames(e)
        IN  /\ free = Nil \/ bound = Nil
            /\ bound # Nil <=>
                  /\ TheHead.h = "index"
                  /\ TheHead.pkg = s_validate /\ TheHead.fn = s_Struct
                  /\ Len(TheCalls) > 0
            /\ bound # Nil => bound.TypeName = TheHead.targ

\* validate.Struct[User].Field(...Age...): a schema of User with the field
\* Age for the second generator, none for the first
C27_DisjointWitness ==
    /\ Scanned /\ OneVarDecl
    /\ TheHead.h = "index"
    /\ TheCalls = << FieldAge >>
    /\ schemas = << >>
    /\ extractValidationSchemaOfNames(ParseValue(input.decls[1].values[1])) =
          [TypeName |-> s_User,
           Fields |-> << [Name |-> s_Age, Type |-> s_int,
                          Validators |-> << s_Int, s_Min >>] >>]

-----------------------------------------------------------------------------
(* The combinators.                                                        *)

\* the validator passes on the value
Passes(v, x) == Validate(v, x) = Nil

\* what the combinator v is to return on x, given what its operands return
RECURSIVE TruthTable(_, _)
TruthTable(v, x) ==
    LET out == Validate(v, x) IN
    IF v.type = "AllOfValidator"
    THEN LET vs == v.validators IN
         /\ (out = Nil) <=> \A i \in 1..Len(vs) : Passes(vs[i], x)
         /\ \A i \in 1..Len(vs) :
               (~Passes(vs[i], x) /\ \A j \in 1..(i - 1) : Passes(vs[j], x)) =>
                   out = Validate(vs[i], x)
         /\ \A i \in 1..Len(vs) : TruthTable(vs[i], x)
    ELSE IF v.type = "OneOfValidator"
    THEN LET vs == v.validators IN
         /\ (out = Nil) <=> \E i \in 1..Len(vs) : Passes(vs[i], x)
         /\ out # Nil =>
               /\ out.Code = "no_match"
               /\ out.Field = Validate(vs[Len(vs)], x).Field
         /\ \A i \in 1..Len(vs) : TruthTable(vs[i], x)
    ELSE IF v.type = "NotValidator"
    THEN /\ (out = Nil) <=> ~Passes(v.validator, x)
         /\ out # Nil => out.Code = "invalid_match"
         /\ v.validator.type = "NotValidator" =>
               (Passes(v, x) <=> Passes(v.validator.validator, x))
         /\ TruthTable(v.validator, x)
    ELSE TRUE

-----------------------------------------------------------------------------
(* Nested schemas.                                                         *)

\* the failing rules of the inner schema of a Nested rule, on the value of
\* the field the outer rule selects
InnerFailing(call, value) ==
    FailingCalls(call.rule.schema.rules, value[call.selector.field])

\* C29: when a rule Field(selector, Nested(inner)) fails in the outer
\* Schema.Validate, the outer collection has exactly one entry for the rule,
\* with the Code of the first failing rule of the inner schema and a Field
\* that still identifies the inner field that failed, not the outer field
\* only.
C29_NestedFieldPath ==
    SchemaReturned =>
        LET failing == FailingCalls(built, result.value)
            got == Get(result.out)
        IN  /\ Len(got) = Len(failing)
            /\ \A i \in 1..Len(failing) :
                  failing[i].rule.type = "NestedValidator" =>
                      LET first == InnerFailing(failing[i], result.value)[1]
                          outer == failing[i].selector.field
                          inner == first.selector.field
                      IN  /\ got[i].Code = Verdict(first, result.value[outer]).Code
                          /\ got[i].Field \in { inner, outer \o "." \o inner }

\* what the two Validate calls do together: the entry has the Code of the
\* first failing inner rule, and the name of the outer field as its Field
C29_OuterFieldOnly ==
    SchemaReturned =>
        LET failing == FailingCalls(built, result.value)
            got == Get(result.out)
        IN  /\ Len(got) = Len(failing)
            /\ \A i \in 1..Len(failing) :
                  failing[i].rule.type = "NestedValidator" =>
                      LET first == InnerFailing(failing[i], result.value)[1]
                          outer == failing[i].selector.field
                      IN  /\ got[i].Code = Verdict(first, result.value[outer]).Code
                          /\ got[i].Field = outer

\* an Address whose Street is too short and whose City is empty, under the
\* single rule Nested(addressSchema): one entry, too_short, Field Address
C29_OuterFieldWitness ==
    /\ SchemaReturned
    /\ Len(built) = 1
    /\ built[1].rule = Nested(AddressSchema)
    /\ result.value.Address.Street = t_jo
    /\ result.value.Address.City = << >>
    /\ Get(result.out) = << [Field |-> "Address", Code |-> "too_short"] >>

-----------------------------------------------------------------------------
(* A rendering that fails.                                                 *)

\* the emission of schema `next` has failed in tmpl.Execute
RenderingFailed ==
    /\ pc = "failed"
    /\ err.msg = "generating validator for"
    /\ err.cause.msg = "executing template"

\* the text is a proper prefix of the other: empty, or partial
IsProperPrefix(text, whole) ==
    Len(text) < Len(whole) /\ text = SubSeq(whole, 1, Len(text))

\* the output file of the failing schema was created before anything was
\* written to it, and holds the beginning of the generated source only
TruncatedAndPartial ==
    LET path == ExpectedPath(next)
        mine == SelectSeq(writes, LAMBDA w : w.schema = next /\ w.path = path)
    IN  /\ path \in DOMAIN fs.files
        /\ IsProperPrefix(fs.files[path], Render(config.Package, schemas[next]))
        /\ Len(mine) = 2 /\ mine[1].op = "create" /\ mine[2].op = "write"

\* C30: generateValidator creates, and so truncates, the output file before
\* the template is executed: when rendering fails the file exists with empty
\* or partial content and what the path held before is lost, while the files
\* of the schemas emitted earlier in the run are untouched.
C30_TruncatedBeforeRendering ==
    RenderingFailed =>
        /\ TruncatedAndPartial
        /\ \A j \in 1..(next - 1) :
              /\ ExpectedPath(j) \in DOMAIN fs.files
              /\ fs.files[ExpectedPath(j)] = Render(config.Package, schemas[j])

\* the same, for the files of the earlier schemas that have a path of their
\* own
C30_TruncatedOnOwnPath ==
    RenderingFailed =>
        /\ TruncatedAndPartial
        /\ \A j \in 1..(next - 1) :
              (\A m \in 1..next : m # j => ExpectedPath(m) # ExpectedPath(j)) =>
                  /\ ExpectedPath(j) \in DOMAIN fs.files
                  /\ fs.files[ExpectedPath(j)] = Render(config.Package, schemas[j])

\* the second of two schemas fails in rendering over a file that held other
\* text: that text is gone, the first schema's file is whole
C30_OwnPathWitness ==
    /\ RenderingFailed
    /\ next = 2
    /\ ExpectedPath(1) # ExpectedPath(2)
    /\ ExpectedPath(2) \in DOMAIN start.files
    /\ start.files[ExpectedPath(2)] = StaleText
    /\ fs.files[ExpectedPath(2)] # StaleText
    /\ Len(fs.files[ExpectedPath(2)]) \in 0..2
    /\ fs.files[ExpectedPath(1)] = Render(config.Package, schemas[1])

=============================================================================
